---- MODULE Spec2Model ----
(***************************************************************************)
(* A model of the krs MCP tool server (src/krs/utils/mcp_server.py) and of *)
(* the interactive client session (src/krs/utils/anthropic_client.py).     *)
(*                                                                         *)
(* Python strings are modelled as sequences of one-character strings, so   *)
(* that formatting a response and parsing it back (split, substring test)  *)
(* are computed and not assumed.                                           *)
(***************************************************************************)
EXTENDS Integers, Sequences, FiniteSets, TLC

-----------------------------------------------------------------------------
(* Python str primitives                                                   *)

\* The characters of pod names in ascending code point order (str comparison).
Alphabet ==
    << "'", "-", "0", "1", "2", "a", "b", "c", "d", "e", "f", "g", "h", "i",
       "j", "k", "l", "m", "n", "o", "p", "q", "r", "s", "t", "u", "v", "w",
       "x", "y", "z" >>

CodePoint(c) ==
    CHOOSE i \in 1..Len(Alphabet) : Alphabet[i] = c

\* s < t for Python strings: lexicographic by code point, a proper prefix first.
RECURSIVE StrLess(_, _)
StrLess(s, t) ==
    IF t = << >> THEN FALSE
    ELSE IF s = << >> THEN TRUE
    ELSE IF s[1] = t[1] THEN StrLess(Tail(s), Tail(t))
    ELSE CodePoint(s[1]) < CodePoint(t[1])

\* needle in text
Contains(text, needle) ==
    \E i \in 1..(Len(text) - Len(needle) + 1) :
        \A k \in 1..Len(needle) : text[i + k - 1] = needle[k]

\* text.strip() for the whitespace of the model, the blank and the newline.
RECURSIVE LStrip(_)
LStrip(s) ==
    IF s # << >> /\ s[1] \in {" ", "\n"} THEN LStrip(Tail(s)) ELSE s

RECURSIVE RStrip(_)
RStrip(s) ==
    IF s # << >> /\ s[Len(s)] \in {" ", "\n"}
    THEN RStrip(SubSeq(s, 1, Len(s) - 1))
    ELSE s

Strip(s) == LStrip(RStrip(s))

Letters ==
    << "a", "b", "c", "d", "e", "f", "g", "h", "i", "j", "k", "l", "m", "n",
       "o", "p", "q", "r", "s", "t", "u", "v", "w", "x", "y", "z" >>

Capitals ==
    << "A", "B", "C", "D", "E", "F", "G", "H", "I", "J", "K", "L", "M", "N",
       "O", "P", "Q", "R", "S", "T", "U", "V", "W", "X", "Y", "Z" >>

IsCased(c) ==
    \E i \in DOMAIN Letters : c = Letters[i] \/ c = Capitals[i]

UpperChar(c) ==
    IF \E i \in DOMAIN Letters : c = Letters[i]
    THEN Capitals[CHOOSE i \in DOMAIN Letters : Letters[i] = c]
    ELSE c

LowerChar(c) ==
    IF \E i \in DOMAIN Capitals : c = Capitals[i]
    THEN Letters[CHOOSE i \in DOMAIN Capitals : Capitals[i] = c]
    ELSE c

\* str.lower()
Lower(s) == [i \in 1..Len(s) |-> LowerChar(s[i])]

\* text.find(needle, i), counted from 1: the first place at or after i where
\* needle starts in text, or 0.
RECURSIVE Find(_, _, _)
Find(text, needle, i) ==
    IF i + Len(needle) - 1 > Len(text) THEN 0
    ELSE IF \A k \in 1..Len(needle) : text[i + k - 1] = needle[k] THEN i
    ELSE Find(text, needle, i + 1)

\* The rest of text.split(sep) past the occurrence of sep found at i (0: none),
\* the piece before it starting at `from`.
RECURSIVE SplitAt(_, _, _, _)
SplitAt(text, sep, from, i) ==
    IF i = 0 THEN << SubSeq(text, from, Len(text)) >>
    ELSE << SubSeq(text, from, i - 1) >>
             \o SplitAt(text, sep, i + Len(sep),
                        Find(text, sep, i + Len(sep)))

\* text.split(sep): the list of the pieces between the occurrences of sep.
Split(text, sep) == SplitAt(text, sep, 1, Find(text, sep, 1))

\* sep.join(parts)
RECURSIVE Join(_, _)
Join(parts, sep) ==
    IF parts = << >> THEN << >>
    ELSE IF Len(parts) = 1 THEN parts[1]
    ELSE parts[1] \o sep \o Join(Tail(parts), sep)

\* text.replace(old, new): leftmost non-overlapping occurrences.
Replace(text, old, new) == Join(Split(text, old), new)

-----------------------------------------------------------------------------
(* difflib.get_close_matches, as delete_pod calls it (n=1, cutoff=0.6)     *)

\* The matching blocks a[i..i+k-1] = b[j..j+k-1] inside a[alo..ahi-1], b[blo..bhi-1].
MatchingBlocksIn(a, b, alo, ahi, blo, bhi) ==
    { m \in (alo..(ahi - 1)) \X (blo..(bhi - 1)) \X (1..(ahi - alo)) :
        /\ m[1] + m[3] <= ahi
        /\ m[2] + m[3] <= bhi
        /\ \A d \in 0..(m[3] - 1) : a[m[1] + d] = b[m[2] + d] }

\* SequenceMatcher.find_longest_match: the longest block, of those the one that
\* starts earliest in a, of those the one that starts earliest in b.
FindLongestMatch(a, b, alo, ahi, blo, bhi) ==
    LET blocks == MatchingBlocksIn(a, b, alo, ahi, blo, bhi)
    IN  IF blocks = {} THEN << alo, blo, 0 >>
        ELSE CHOOSE m \in blocks :
                \A o \in blocks :
                    \/ m[3] > o[3]
                    \/ m[3] = o[3] /\ m[1] < o[1]
                    \/ m[3] = o[3] /\ m[1] = o[1] /\ m[2] <= o[2]

\* The number of matched characters SequenceMatcher.get_matching_blocks finds.
RECURSIVE MatchCount(_, _, _, _, _, _)
MatchCount(a, b, alo, ahi, blo, bhi) ==
    LET m == FindLongestMatch(a, b, alo, ahi, blo, bhi)
    IN  IF m[3] = 0 THEN 0
        ELSE m[3]
              + MatchCount(a, b, alo, m[1], blo, m[2])
              + MatchCount(a, b, m[1] + m[3], ahi, m[2] + m[3], bhi)

Matches(a, b) == MatchCount(a, b, 1, Len(a) + 1, 1, Len(b) + 1)

\* ratio() = 2.0 * M / T >= cutoff, with cutoff = 0.6, in integers.
CutoffNum == 6
CutoffDen == 10

RatioAtLeastCutoff(a, b) ==
    IF Len(a) + Len(b) = 0 THEN TRUE
    ELSE 2 * Matches(a, b) * CutoffDen >= CutoffNum * (Len(a) + Len(b))

\* (ratio(x), x) < (ratio(y), y), the order heapq.nlargest ranks candidates by.
ScoredLess(word, x, y) ==
    LET mx == Matches(x, word) * (Len(y) + Len(word))
        my == Matches(y, word) * (Len(x) + Len(word))
    IN  mx < my \/ (mx = my /\ StrLess(x, y))

\* get_close_matches(word, possibilities, n=1, cutoff=0.6): a list of at most
\* one name.  seq1 is the candidate and seq2 the word.
get_close_matches(word, possibilities) ==
    LET close == { x \in possibilities : RatioAtLeastCutoff(x, word) }
    IN  IF close = {} THEN << >>
        ELSE << CHOOSE x \in close :
                    \A y \in close : y = x \/ ScoredLess(word, y, x) >>

-----------------------------------------------------------------------------
(* The cluster and the state of the programs                               *)

VARIABLES
    cluster,               \* namespace -> (pod name -> list of containers)
    dp,                    \* the frame of a running delete_pod call
    cp,                    \* the frame of a running create_pod call
    pc,                    \* interactive_session: "prompt" or "exited"
    pending_confirmation,  \* interactive_session's local of that name
    pending_action,        \* interactive_session's local of that name
    turn,                  \* what the last turn of the session did
    helper,                \* the last call of a helper of create_pod on its own
    rpc                    \* process_query's call_tool under wait_for

vars ==
    << cluster, dp, cp, pc, pending_confirmation, pending_action, turn,
       helper, rpc >>

Default == << "d", "e", "f", "a", "u", "l", "t" >>
Dev == << "d", "e", "v" >>

Namespaces == { Default, Dev }

\* A container as the cluster API lists it.  `container.ports or []` is the only
\* use the code makes of ports, so None and [] are both the empty sequence.
Container(image, ports) == [image |-> image, ports |-> ports]

Web == << "w", "e", "b" >>
Wed == << "w", "e", "d" >>
Api == << "a", "p", "i" >>

\* The pods a namespace may hold before the program acts on it.
SeedPods ==
    (Default :> ((Web :> << Container("nginx:latest", << 8080 >>) >>)
                 @@ (Wed :> << Container("redis:7", << >>),
                               Container("nginx:latest", << 8081 >>) >>)))
    @@ (Dev :> (Web :> << Container("httpd:2", << 8080, 8443 >>) >>))

Restrict(f, S) == [x \in S |-> f[x]]

InitClusters ==
    { [ns \in Namespaces |-> Restrict(SeedPods[ns], pick[ns])] :
        pick \in { p \in [Namespaces -> SUBSET { Web, Wed }] :
                     \A ns \in Namespaces : p[ns] \subseteq DOMAIN SeedPods[ns] } }

\* str(e) of an exception the cluster API raises.
ApiErrorText == << "4", "0", "4" >>

-----------------------------------------------------------------------------
(* delete_pod                                                              *)

\* re.split(r'[ ,]+', text) filtered by `if name.strip()`: the maximal runs of
\* characters that are neither a blank nor a comma.
RECURSIVE ReSplitNames(_)
ReSplitNames(text) ==
    IF text = << >> THEN << >>
    ELSE IF text[1] \in { " ", "," } THEN ReSplitNames(Tail(text))
    ELSE LET n == CHOOSE k \in 1..Len(text) :
                      /\ \A i \in 1..k : text[i] \notin { " ", "," }
                      /\ k = Len(text) \/ text[k + 1] \in { " ", "," }
         IN  << SubSeq(text, 1, n) >>
                 \o ReSplitNames(SubSeq(text, n + 1, Len(text)))

\* names.replace(" and ", ",") and the split into candidate names.
DeleteCandidates(names) ==
    ReSplitNames(Replace(names, << " ", "a", "n", "d", " " >>, << "," >>))

\* suggestions[pod_name] = suggested on a dict kept in insertion order.
DictSet(items, key, value) ==
    IF \E i \in 1..Len(items) : items[i][1] = key
    THEN [i \in 1..Len(items) |->
            IF items[i][1] = key THEN << key, value >> ELSE items[i]]
    ELSE Append(items, << key, value >>)

\* f"{pod_name} ({str(e)})"
FailedEntry(pod_name) ==
    pod_name \o << " ", "(" >> \o ApiErrorText \o << ")" >>

\* v1.delete_namespaced_pod(name, namespace) returns (TRUE) or raises (FALSE):
\* it raises for a pod that is not there and whenever the API fails.
DeleteSucceeds(cl, namespace, name, api_fails) ==
    name \in DOMAIN cl[namespace] /\ ~api_fails

RemovePod(cl, namespace, name) ==
    [cl EXCEPT ![namespace] = Restrict(@, DOMAIN @ \ { name })]

\* The locals of delete_pod when the loop starts.
DeleteFrame(namespace, pod_names, existing_pods) ==
    [pc            |-> "loop",
     namespace     |-> namespace,
     pod_names     |-> pod_names,
     rest          |-> pod_names,
     existing_pods |-> existing_pods,
     deleted_pods  |-> << >>,
     failed_pods   |-> << >>,
     suggestions   |-> << >>,
     delete_calls  |-> << >>,
     text          |-> << >>,
     last          |-> [pod_name |-> << >>, calls_before |-> << >>,
                        suggestions_before |-> << >>, api_fails |-> FALSE]]

\* DeleteIteration with the `continue` left out: a suggestion is recorded and
\* the iteration goes on to the delete call.
DeleteIterationNoContinue(d, cl, api_fails) ==
    LET pod_name == Head(d.rest)
        similar_names ==
            IF pod_name \in d.existing_pods THEN << >>
            ELSE get_close_matches(pod_name, d.existing_pods)
        noted ==
            IF pod_name \notin d.existing_pods /\ similar_names # << >>
            THEN [d EXCEPT !.suggestions =
                     DictSet(@, pod_name, similar_names[1])]
            ELSE d
    IN  IF DeleteSucceeds(cl, d.namespace, pod_name, api_fails)
        THEN [frame   |-> [noted EXCEPT
                  !.rest = Tail(@),
                  !.delete_calls = Append(@, pod_name),
                  !.deleted_pods = Append(@, pod_name)],
              cluster |-> RemovePod(cl, d.namespace, pod_name)]
        ELSE [frame   |-> [noted EXCEPT
                  !.rest = Tail(@),
                  !.delete_calls = Append(@, pod_name),
                  !.failed_pods = Append(@, FailedEntry(pod_name))],
              cluster |-> cl]

\* DeleteIteration with the delete call outside the inner try: a delete that
\* raises ends the loop, and the names after it get no iteration.
DeleteIterationStopsOnFailure(d, cl, api_fails) ==
    LET pod_name == Head(d.rest)
        similar_names ==
            IF pod_name \in d.existing_pods THEN << >>
            ELSE get_close_matches(pod_name, d.existing_pods)
    IN  IF pod_name \notin d.existing_pods /\ similar_names # << >>
        THEN [frame   |-> [d EXCEPT
                  !.rest = Tail(@),
                  !.suggestions = DictSet(@, pod_name, similar_names[1])],
              cluster |-> cl]
        ELSE IF DeleteSucceeds(cl, d.namespace, pod_name, api_fails)
        THEN [frame   |-> [d EXCEPT
                  !.rest = Tail(@),
                  !.delete_calls = Append(@, pod_name),
                  !.deleted_pods = Append(@, pod_name)],
              cluster |-> RemovePod(cl, d.namespace, pod_name)]
        ELSE [frame   |-> [d EXCEPT
                  !.rest = << >>,
                  !.delete_calls = Append(@, pod_name),
                  !.failed_pods = Append(@, FailedEntry(pod_name))],
              cluster |-> cl]

\* One iteration of `for pod_name in pod_names` on frame d and cluster cl:
\* the frame and the cluster after it.
DeleteIteration(d, cl, api_fails) ==
    LET pod_name == Head(d.rest)
        similar_names ==
            IF pod_name \in d.existing_pods THEN << >>
            ELSE get_close_matches(pod_name, d.existing_pods)
    IN  IF pod_name \notin d.existing_pods /\ similar_names # << >>
        THEN [frame   |-> [d EXCEPT
                  !.rest = Tail(@),
                  !.suggestions = DictSet(@, pod_name, similar_names[1])],
              cluster |-> cl]
        ELSE IF DeleteSucceeds(cl, d.namespace, pod_name, api_fails)
        THEN [frame   |-> [d EXCEPT
                  !.rest = Tail(@),
                  !.delete_calls = Append(@, pod_name),
                  !.deleted_pods = Append(@, pod_name)],
              cluster |-> RemovePod(cl, d.namespace, pod_name)]
        ELSE [frame   |-> [d EXCEPT
                  !.rest = Tail(@),
                  !.delete_calls = Append(@, pod_name),
                  !.failed_pods = Append(@, FailedEntry(pod_name))],
              cluster |-> cl]

\* "Pod '{incorrect_name}' not found. Did you mean '{suggested_name}'? Reply
\* 'yes' to delete it."
SuggestionResponse(incorrect_name, suggested_name) ==
    << "P", "o", "d", " ", "'" >> \o incorrect_name
        \o << "'", " ", "n", "o", "t", " ", "f", "o", "u", "n", "d", ".", " ",
              "D", "i", "d", " ", "y", "o", "u", " ", "m", "e", "a", "n", " ",
              "'" >>
        \o suggested_name
        \o << "'", "?", " ", "R", "e", "p", "l", "y", " ", "'", "y", "e", "s",
              "'", " ", "t", "o", " ", "d", "e", "l", "e", "t", "e", " ", "i",
              "t", "." >>

\* DeleteResponse with the confirmation prompts appended to the summary lines
\* instead of returned in their place.
DeleteResponseWithSummary(d) ==
    LET deleted_line ==
            << "P", "o", "d", "s", " ", "d", "e", "l", "e", "t", "e", "d", " ",
               "s", "u", "c", "c", "e", "s", "s", "f", "u", "l", "l", "y", ":",
               " " >> \o Join(d.deleted_pods, << ",", " " >>)
        failed_line ==
            << "F", "a", "i", "l", "e", "d", " ", "t", "o", " ", "d", "e", "l",
               "e", "t", "e", " ", "p", "o", "d", "s", ":", " " >>
                \o Join(d.failed_pods, << ",", " " >>)
        response ==
            (IF d.deleted_pods # << >> THEN << deleted_line >> ELSE << >>)
                \o (IF d.failed_pods # << >> THEN << failed_line >> ELSE << >>)
                \o [i \in 1..Len(d.suggestions) |->
                       SuggestionResponse(d.suggestions[i][1],
                                          d.suggestions[i][2])]
    IN  IF response # << >> THEN Join(response, << "\n" >>)
        ELSE << "N", "o", " ", "p", "o", "d", "s", " ", "w", "e", "r", "e",
                " ", "d", "e", "l", "e", "t", "e", "d", "." >>

\* The string delete_pod returns once the loop is over.
DeleteResponse(d) ==
    LET deleted_line ==
            << "P", "o", "d", "s", " ", "d", "e", "l", "e", "t", "e", "d", " ",
               "s", "u", "c", "c", "e", "s", "s", "f", "u", "l", "l", "y", ":",
               " " >> \o Join(d.deleted_pods, << ",", " " >>)
        failed_line ==
            << "F", "a", "i", "l", "e", "d", " ", "t", "o", " ", "d", "e", "l",
               "e", "t", "e", " ", "p", "o", "d", "s", ":", " " >>
                \o Join(d.failed_pods, << ",", " " >>)
        response ==
            (IF d.deleted_pods # << >> THEN << deleted_line >> ELSE << >>)
                \o (IF d.failed_pods # << >> THEN << failed_line >> ELSE << >>)
    IN  IF d.suggestions # << >>
        THEN Join([i \in 1..Len(d.suggestions) |->
                      SuggestionResponse(d.suggestions[i][1],
                                         d.suggestions[i][2])],
                  << "\n" >>)
        ELSE IF response # << >> THEN Join(response, << "\n" >>)
        ELSE << "N", "o", " ", "p", "o", "d", "s", " ", "w", "e", "r", "e",
                " ", "d", "e", "l", "e", "t", "e", "d", "." >>

\* f"Error: {str(e)}", what the tools return when a cluster call raises.
ErrorResponse ==
    << "E", "r", "r", "o", "r", ":", " " >> \o ApiErrorText

\* The names the cluster lists in a namespace: the keys of existing_pods.
PodNamesIn(cl, namespace) == DOMAIN cl[namespace]

\* delete_pod before it is called and between calls.
IdleDelete ==
    [DeleteFrame(Default, << >>, {}) EXCEPT !.pc = "idle"]

\* The `names` arguments delete_pod is called with.
Wex == << "w", "e", "x" >>
Zz == << "z", "z" >>
WeQuoteB == << "w", "e", "'", "b" >>

DeleteRequests ==
    { << >>, Web, Wex, Zz, WeQuoteB,
      Wex \o << " ", "a", "n", "d", " " >> \o Wed,
      Web \o << ",", " " >> \o Zz,
      Zz \o << "," >> \o Web,
      Wex \o << "," >> \o WeQuoteB }

\* delete_pod is called: it lists the namespace, which raises or gives the
\* snapshot, and splits `names`.
DeleteCall ==
    /\ dp.pc \in { "idle", "returned" }
    /\ \E names \in DeleteRequests, namespace \in Namespaces, raises \in BOOLEAN :
          dp' = IF raises
                THEN [DeleteFrame(namespace, << >>, {}) EXCEPT
                         !.pc = "returned", !.text = ErrorResponse]
                ELSE DeleteFrame(namespace, DeleteCandidates(names),
                                 PodNamesIn(cluster, namespace))
    /\ UNCHANGED << cluster, cp, pc, pending_confirmation, pending_action, turn, helper, rpc >>

\* One iteration of the loop over the candidate names.
DeleteStep ==
    /\ dp.pc = "loop"
    /\ dp.rest # << >>
    /\ \E api_fails \in BOOLEAN :
          LET after == DeleteIteration(dp, cluster, api_fails)
          IN  /\ dp' = [after.frame EXCEPT !.last =
                          [pod_name           |-> Head(dp.rest),
                           calls_before       |-> dp.delete_calls,
                           suggestions_before |-> dp.suggestions,
                           api_fails          |-> api_fails]]
              /\ cluster' = after.cluster
    /\ UNCHANGED << cp, pc, pending_confirmation, pending_action, turn, helper, rpc >>

\* The loop is over: delete_pod builds its response and returns.
DeleteReturn ==
    /\ dp.pc = "loop"
    /\ dp.rest = << >>
    /\ dp' = [dp EXCEPT !.pc = "returned", !.text = DeleteResponse(dp)]
    /\ UNCHANGED << cluster, cp, pc, pending_confirmation, pending_action, turn, helper, rpc >>

-----------------------------------------------------------------------------
(* create_pod and its helpers                                              *)

Range(f) == { f[x] : x \in DOMAIN f }

\* new_port = 8080
BasePort == 8080

\* UsedPorts for a loop that reads the ports of each pod's first container
\* only.
UsedPortsFirstContainer(existing_pods) ==
    UNION { Range(existing_pods[name][1].ports) :
              name \in { n \in DOMAIN existing_pods :
                           existing_pods[n] # << >> } }

\* The used_ports set _generate_unique_port collects from the snapshot.
UsedPorts(existing_pods) ==
    UNION { UNION { Range(container.ports) :
                      container \in Range(existing_pods[name]) } :
              name \in DOMAIN existing_pods }

\* while new_port in used_ports: new_port += 1
RECURSIVE FirstFreePort(_, _)
FirstFreePort(new_port, used_ports) ==
    IF new_port \in used_ports THEN FirstFreePort(new_port + 1, used_ports)
    ELSE new_port

\* _generate_unique_port: from 8080 upwards, the first port not in used_ports.
_generate_unique_port(existing_pods) ==
    FirstFreePort(BasePort, UsedPorts(existing_pods))

\* _generate_pod_spec that leaves the pod's name to a default and gives the
\* requested name to the container only.
_generate_pod_specDefaultName(pod_name, existing_pods) ==
    [apiVersion |-> "v1",
     kind       |-> "Pod",
     metadata   |-> [name |-> << "p", "o", "d" >>],
     spec       |-> [containers |->
         << [name  |-> pod_name,
             image |-> "nginx:latest",
             ports |-> << [containerPort |->
                             _generate_unique_port(existing_pods)] >>] >>]]

\* _generate_pod_spec: the manifest of a pod of which only the name is given.
_generate_pod_spec(pod_name, existing_pods) ==
    [apiVersion |-> "v1",
     kind       |-> "Pod",
     metadata   |-> [name |-> pod_name],
     spec       |-> [containers |->
         << [name  |-> pod_name,
             image |-> "nginx:latest",
             ports |-> << [containerPort |->
                             _generate_unique_port(existing_pods)] >>] >>]]

\* _generate_unique_pod_name: the first random name that is not in the snapshot;
\* random_names are the names random.choices draws, in order.
RECURSIVE _generate_unique_pod_name(_, _)
_generate_unique_pod_name(existing_pods, random_names) ==
    IF Head(random_names) \notin DOMAIN existing_pods THEN Head(random_names)
    ELSE _generate_unique_pod_name(existing_pods, Tail(random_names))

\* _fill_missing_pod_info: a name, a container list and a port per container
\* for a manifest that lacks them.
_fill_missing_pod_info(pod, existing_pods, random_names) ==
    LET named ==
            IF "metadata" \notin DOMAIN pod \/ "name" \notin DOMAIN pod.metadata
            THEN [pod EXCEPT !.metadata =
                     [name |-> _generate_unique_pod_name(existing_pods,
                                                         random_names)]]
            ELSE pod
        with_spec ==
            IF "spec" \notin DOMAIN named
            THEN [x \in DOMAIN named \cup { "spec" } |->
                     IF x = "spec" THEN [containers |-> << >>] ELSE named[x]]
            ELSE named
        port == [containerPort |-> _generate_unique_port(existing_pods)]
    IN  IF "containers" \notin DOMAIN with_spec.spec
           \/ with_spec.spec.containers = << >>
        THEN [with_spec EXCEPT !.spec =
                 [containers |-> << [name  |-> with_spec.metadata.name,
                                     image |-> "nginx:latest",
                                     ports |-> << port >>] >>]]
        ELSE [with_spec EXCEPT !.spec.containers =
                 [i \in DOMAIN @ |->
                     IF "ports" \notin DOMAIN @[i]
                     THEN [x \in DOMAIN @[i] \cup { "ports" } |->
                             IF x = "ports" THEN << port >> ELSE @[i][x]]
                     ELSE @[i]]]

\* _is_duplicate_pod without the comparison of names.
_is_duplicate_podIgnoresName(new_pod, existing_pods) ==
    \E name \in DOMAIN existing_pods :
        \E container \in Range(existing_pods[name]) :
            LET new_container == new_pod.spec.containers[1]
            IN  /\ container.image = new_container.image
                /\ \E port \in Range(container.ports) :
                      port = new_container.ports[1].containerPort

\* _is_duplicate_pod without the comparison of image and port.
_is_duplicate_podNameOnly(new_pod, existing_pods) ==
    \E name \in DOMAIN existing_pods : name = new_pod.metadata.name

\* _is_duplicate_pod: a pod of the snapshot has the name, or a container of one
\* has the image of the new pod's first container together with its first port.
_is_duplicate_pod(new_pod, existing_pods) ==
    \E name \in DOMAIN existing_pods :
        \/ name = new_pod.metadata.name
        \/ \E container \in Range(existing_pods[name]) :
              LET new_container == new_pod.spec.containers[1]
              IN  /\ container.image = new_container.image
                  /\ \E port \in Range(container.ports) :
                        port = new_container.ports[1].containerPort

\* names.split(',') with each piece stripped and the empty pieces dropped.
CreatePodNames(names) ==
    LET pieces   == Split(names, << "," >>)
        stripped == [i \in 1..Len(pieces) |-> Strip(pieces[i])]
    IN  SelectSeq(stripped, LAMBDA name : name # << >>)

\* The names random.choices would draw for _generate_unique_pod_name.
RandomNames ==
    << << "p", "o", "d", "-", "a", "0", "a", "0", "a" >>,
       << "p", "o", "d", "-", "b", "1", "b", "1", "b" >>,
       << "p", "o", "d", "-", "c", "2", "c", "2", "c" >> >>

\* SynthesizeAll with the else of the duplicate test left out: a duplicate is
\* listed as skipped and submitted all the same.
RECURSIVE SynthesizeAllSubmitsDuplicates(_, _)
SynthesizeAllSubmitsDuplicates(c, pod_names) ==
    IF pod_names = << >> THEN c
    ELSE LET pod_spec ==
                 _fill_missing_pod_info(
                     _generate_pod_spec(Head(pod_names), c.existing_pods),
                     c.existing_pods, RandomNames)
         IN  SynthesizeAllSubmitsDuplicates(
                 IF _is_duplicate_pod(pod_spec, c.existing_pods)
                 THEN [c EXCEPT !.skipped_pods =
                          Append(@, pod_spec.metadata.name),
                                !.processed_pod_manifest =
                          Append(@, pod_spec)]
                 ELSE [c EXCEPT !.processed_pod_manifest =
                          Append(@, pod_spec)],
                 Tail(pod_names))

\* The loop of create_pod over pod_names on frame c: each name's manifest goes
\* to skipped_pods (its name) or to processed_pod_manifest.
RECURSIVE SynthesizeAll(_, _)
SynthesizeAll(c, pod_names) ==
    IF pod_names = << >> THEN c
    ELSE LET pod_spec ==
                 _fill_missing_pod_info(
                     _generate_pod_spec(Head(pod_names), c.existing_pods),
                     c.existing_pods, RandomNames)
         IN  SynthesizeAll(
                 IF _is_duplicate_pod(pod_spec, c.existing_pods)
                 THEN [c EXCEPT !.skipped_pods =
                          Append(@, pod_spec.metadata.name)]
                 ELSE [c EXCEPT !.processed_pod_manifest =
                          Append(@, pod_spec)],
                 Tail(pod_names))

\* The locals of create_pod once the tasks are submitted to the executor;
\* tasks[i] is the state of the task of processed_pod_manifest[i].
CreateFrame(names, namespace, existing_pods) ==
    LET c == SynthesizeAll(
                 [pc                     |-> "gather",
                  namespace              |-> namespace,
                  pod_names              |-> CreatePodNames(names),
                  existing_pods          |-> existing_pods,
                  created_pods           |-> << >>,
                  skipped_pods           |-> << >>,
                  failed_pods            |-> << >>,
                  processed_pod_manifest |-> << >>,
                  tasks                  |-> << >>,
                  create_calls           |-> << >>,
                  text                   |-> << >>],
                 CreatePodNames(names))
    IN  [c EXCEPT !.tasks =
            [i \in 1..Len(c.processed_pod_manifest) |-> "submitted"]]

\* create_pod before it is called and between calls.
IdleCreate ==
    [CreateFrame(<< >>, Default, << >>) EXCEPT !.pc = "idle"]

\* The characters the cluster accepts in a pod name.
ValidPodName(name) ==
    /\ name # << >>
    /\ \A i \in 1..Len(name) :
          name[i] \in Range(Alphabet) \ { "'" }

\* v1.create_namespaced_pod(namespace, body) returns (TRUE) or raises (FALSE):
\* it raises for a name the namespace holds, for a name the cluster rejects
\* and whenever the API fails.
CreateSucceeds(cl, namespace, pod, api_fails) ==
    /\ pod.metadata.name \notin DOMAIN cl[namespace]
    /\ ValidPodName(pod.metadata.name)
    /\ ~api_fails

\* The pod as the cluster lists it once it is created.
ListedContainers(pod) ==
    [i \in DOMAIN pod.spec.containers |->
        Container(pod.spec.containers[i].image,
                  [k \in DOMAIN pod.spec.containers[i].ports |->
                      pod.spec.containers[i].ports[k].containerPort])]

AddPod(cl, namespace, pod) ==
    [cl EXCEPT ![namespace] = (pod.metadata.name :> ListedContainers(pod)) @@ @]

\* The namespace _create_single_pod creates in.
CreateNamespace(c) == Default

\* _create_single_pod up to the return of v1.create_namespaced_pod, for task i.
CreateTaskCall(c, cl, i, api_fails) ==
    LET pod == c.processed_pod_manifest[i]
        ok  == CreateSucceeds(cl, CreateNamespace(c), pod, api_fails)
    IN  [frame   |-> [c EXCEPT
                         !.tasks[i] = IF ok THEN "created" ELSE "raised",
                         !.create_calls =
                             Append(@, << CreateNamespace(c),
                                          pod.metadata.name >>)],
         cluster |-> IF ok THEN AddPod(cl, CreateNamespace(c), pod) ELSE cl]

\* CreateTaskRecord with an except clause that records nothing.
CreateTaskRecordDropsFailure(c, i) ==
    LET pod_name == c.processed_pod_manifest[i].metadata.name
    IN  IF c.tasks[i] = "created"
        THEN [c EXCEPT !.tasks[i] = "done",
                       !.created_pods = Append(@, pod_name)]
        ELSE [c EXCEPT !.tasks[i] = "done"]

\* The rest of _create_single_pod for task i: the append to created_pods or,
\* in the except clause, to failed_pods.
CreateTaskRecord(c, i) ==
    LET pod_name == c.processed_pod_manifest[i].metadata.name
    IN  IF c.tasks[i] = "created"
        THEN [c EXCEPT !.tasks[i] = "done",
                       !.created_pods = Append(@, pod_name)]
        ELSE [c EXCEPT !.tasks[i] = "done",
                       !.failed_pods = Append(@, FailedEntry(pod_name))]

\* AllTasksDone for a wait that returns on the first finished task
\* (asyncio.wait with FIRST_COMPLETED).
FirstTaskDone(c) ==
    c.tasks = << >> \/ \E i \in DOMAIN c.tasks : c.tasks[i] = "done"

\* asyncio.gather has every task's result.
AllTasksDone(c) == \A i \in DOMAIN c.tasks : c.tasks[i] = "done"

\* The string create_pod returns.
CreateResponse(c) ==
    LET response ==
            (IF c.created_pods # << >>
             THEN << << "C", "r", "e", "a", "t", "e", "d", " ", "p", "o", "d",
                        "s", ":", " " >>
                         \o Join(c.created_pods, << ",", " " >>) >>
             ELSE << >>)
            \o (IF c.skipped_pods # << >>
                THEN << << "S", "k", "i", "p", "p", "e", "d", " ", "e", "x",
                           "i", "s", "t", "i", "n", "g", " ", "p", "o", "d",
                           "s", ":", " " >>
                            \o Join(c.skipped_pods, << ",", " " >>) >>
                ELSE << >>)
            \o (IF c.failed_pods # << >>
                THEN << << "F", "a", "i", "l", "e", "d", " ", "t", "o", " ",
                           "c", "r", "e", "a", "t", "e", ":", " " >>
                            \o Join(c.failed_pods, << ",", " " >>) >>
                ELSE << >>)
    IN  Join(response, << "\n" >>)

\* The `names` arguments create_pod is called with.
Db == << "d", "b" >>

CreateRequests ==
    { << >>, Api,
      Api \o << "," >> \o Web,
      Api \o << ",", " " >> \o Api,
      Web \o << ",", " " >> \o Api \o << " ", "," >> \o Db }

\* create_pod is called: it lists the namespace, which raises out of the tool
\* or gives the snapshot, synthesizes the manifests and submits the tasks.
CreateCall ==
    /\ cp.pc \in { "idle", "returned", "raised" }
    /\ \E names \in CreateRequests, namespace \in Namespaces, raises \in BOOLEAN :
          cp' = IF raises
                THEN [CreateFrame(<< >>, namespace, << >>) EXCEPT !.pc = "raised"]
                ELSE CreateFrame(names, namespace, cluster[namespace])
    /\ UNCHANGED << cluster, dp, pc, pending_confirmation, pending_action, turn, helper, rpc >>

\* A thread of the executor runs a submitted task up to the API's answer.
TaskCreate ==
    /\ cp.pc = "gather"
    /\ \E i \in DOMAIN cp.tasks, api_fails \in BOOLEAN :
          /\ cp.tasks[i] = "submitted"
          /\ LET after == CreateTaskCall(cp, cluster, i, api_fails)
             IN  cp' = after.frame /\ cluster' = after.cluster
    /\ UNCHANGED << dp, pc, pending_confirmation, pending_action, turn, helper, rpc >>

\* The thread records the task's outcome in the shared list.
TaskRecord ==
    /\ cp.pc = "gather"
    /\ \E i \in DOMAIN cp.tasks :
          /\ cp.tasks[i] \in { "created", "raised" }
          /\ cp' = CreateTaskRecord(cp, i)
    /\ UNCHANGED << cluster, dp, pc, pending_confirmation, pending_action, turn, helper, rpc >>

\* gather returns once every task is done; create_pod returns its summary.
CreateReturn ==
    /\ cp.pc = "gather"
    /\ AllTasksDone(cp)
    /\ cp' = [cp EXCEPT !.pc = "returned", !.text = CreateResponse(cp)]
    /\ UNCHANGED << cluster, dp, pc, pending_confirmation, pending_action, turn, helper, rpc >>

-----------------------------------------------------------------------------
(* The tools from call to return, as one MCP request runs them             *)

\* The catalog the server registers, in the order of the @mcp.tool decorators.
T_list_pods == << "l", "i", "s", "t", "_", "p", "o", "d", "s" >>
T_create_pod == << "c", "r", "e", "a", "t", "e", "_", "p", "o", "d" >>
T_delete_pod == << "d", "e", "l", "e", "t", "e", "_", "p", "o", "d" >>
T_pod_logs == << "p", "o", "d", "_", "l", "o", "g", "s" >>

ToolCatalog ==
    << T_list_pods,
       << "l", "i", "s", "t", "_", "n", "a", "m", "e", "s", "p", "a", "c",
          "e", "s" >>
           ,
       << "l", "i", "s", "t", "_", "s", "e", "r", "v", "i", "c", "e", "s" >>,
       << "l", "i", "s", "t", "_", "d", "e", "p", "l", "o", "y", "m", "e",
          "n", "t", "s" >>
           ,
       T_create_pod,
       T_delete_pod,
       T_pod_logs,
       << "a", "n", "a", "l", "y", "z", "e", "_", "n", "a", "m", "e", "s",
          "p", "a", "c", "e" >>
           >>

\* What a tool call leaves behind: the returned text, the cluster, the cluster
\* calls it made and whether it raised instead of returning.
ToolOutcome(text, cl, delete_calls, create_calls, raised) ==
    [text         |-> text,
     cluster      |-> cl,
     delete_calls |-> delete_calls,
     create_calls |-> create_calls,
     raised       |-> raised]

\* The loop of delete_pod from frame d to its end.
RECURSIVE DeleteLoop(_, _)
DeleteLoop(at, api_fails) ==
    IF at.frame.rest = << >> THEN at
    ELSE DeleteLoop(DeleteIteration(at.frame, at.cluster, api_fails),
                    api_fails)

\* What delete_pod hands back once its loop has ended in `done`.
DeleteOutcome(namespace, done) ==
    ToolOutcome(DeleteResponse(done.frame), done.cluster,
                [i \in DOMAIN done.frame.delete_calls |->
                    << namespace, done.frame.delete_calls[i] >>],
                << >>, FALSE)

\* delete_pod(names, namespace).  api is what the cluster API does during the
\* call: "ok", "list_raises" or "calls_raise".
delete_pod(names, namespace, cl, api) ==
    IF api = "list_raises"
    THEN ToolOutcome(ErrorResponse, cl, << >>, << >>, FALSE)
    ELSE DeleteOutcome(
             namespace,
             DeleteLoop([frame   |-> DeleteFrame(namespace,
                                                 DeleteCandidates(names),
                                                 PodNamesIn(cl, namespace)),
                         cluster |-> cl],
                        api = "calls_raise"))

\* Task i has made its call: its result is recorded.
CreateTaskDone(called, i) ==
    [frame |-> CreateTaskRecord(called.frame, i), cluster |-> called.cluster]

\* The tasks of create_pod run one after the other, from task i on.
RECURSIVE CreateTasks(_, _, _)
CreateTasks(at, i, api_fails) ==
    IF i > Len(at.frame.tasks) THEN at
    ELSE CreateTasks(
             CreateTaskDone(
                 CreateTaskCall(at.frame, at.cluster, i, api_fails), i),
             i + 1, api_fails)

\* What create_pod hands back once its tasks have ended in `done`.
CreateOutcome(done) ==
    ToolOutcome(CreateResponse(done.frame), done.cluster, << >>,
                done.frame.create_calls, FALSE)

\* create_pod(names, namespace).  The listing is outside any try: when it
\* raises, the exception leaves the tool.
create_pod(names, namespace, cl, api) ==
    IF api = "list_raises"
    THEN ToolOutcome(ApiErrorText, cl, << >>, << >>, TRUE)
    ELSE CreateOutcome(
             CreateTasks([frame   |-> CreateFrame(names, namespace,
                                                  cl[namespace]),
                          cluster |-> cl],
                         1, api = "calls_raise"))

\* What v1.read_namespaced_pod_log may do for a pod: return logs, or raise an
\* ApiException (400 with "Bad Request" in its body, 404, another) or some
\* other exception.
LogOutcomes(cl, namespace, name) ==
    IF name \in DOMAIN cl[namespace]
    THEN { "returns", "bad_request", "api_error", "exception" }
    ELSE { "not_found", "api_error", "exception" }

\* The logs a pod may have; SuggestionLogs is a pod that prints a prompt.
PlainLogs == << "r", "e", "a", "d", "y" >>
ErrorLogs == << "E", "r", "r", "o", "r", ":", " ", "o", "o", "m" >>
SuggestionLogs == << "D", "i", "d", " ", "y", "o", "u", " ", "m", "e", "a",
                     "n", " ", "i", "t", "?", " ", "R", "e", "p", "l", "y",
                     " ", "'", "y", "e", "s", "'", " ", "t", "o", " ", "d",
                     "e", "l", "e", "t", "e", " ", "i", "t" >>

PodLogTexts == { << >>, PlainLogs, ErrorLogs, SuggestionLogs }

\* pod_logs(name, namespace)
pod_logs(name, namespace, cl, outcome, logs) ==
    ToolOutcome(
        CASE outcome = "returns" ->
                IF logs = << >>
                THEN << "N", "o", " ", "l", "o", "g", "s", " ", "a", "v",
                        "a", "i", "l", "a", "b", "l", "e", " ", "f", "o",
                        "r", " ", "p", "o", "d", " ", "'" >>
                         \o name
                         \o << "'", " ", "i", "n", " ", "n", "a", "m", "e",
                               "s", "p", "a", "c", "e", " ", "'" >>
                                \o namespace \o << "'", "." >>
                ELSE IF Contains(logs, << "E", "r", "r", "o", "r" >>)
                THEN << "E", "r", "r", "o", "r", " ", "d", "e", "t", "e",
                        "c", "t", "e", "d", " ", "i", "n", " ", "l", "o",
                        "g", "s", ":", " " >>
                         \o logs
                ELSE logs
          [] outcome = "bad_request" ->
                << "E", "r", "r", "o", "r", " ", "r", "e", "t", "r", "i",
                   "e", "v", "i", "n", "g", " ", "l", "o", "g", "s", ":",
                   " " >>
                    \o << "B", "a", "d", " ", "R", "e", "q", "u", "e", "s",
                          "t" >>
          [] outcome = "not_found" ->
                << "N", "o", " ", "p", "o", "d", " ", "f", "o", "u", "n",
                   "d", " ", "w", "i", "t", "h", " ", "t", "h", "e", " ",
                   "n", "a", "m", "e", " ", "'" >>
                    \o name
                    \o << "'", " ", "i", "n", " ", "t", "h", "e", " ", "n",
                          "a", "m", "e", "s", "p", "a", "c", "e", " ", "'" >>
                           \o namespace \o << "'", "." >>
          [] outcome = "api_error" ->
                << "E", "r", "r", "o", "r", " ", "r", "e", "t", "r", "i",
                   "e", "v", "i", "n", "g", " ", "l", "o", "g", "s", ":",
                   " " >>
                    \o ApiErrorText
          [] OTHER -> << "U", "n", "e", "x", "p", "e", "c", "t", "e", "d",
                         " ", "e", "r", "r", "o", "r", ":", " " >>
                          \o ApiErrorText,
        cl, << >>, << >>, FALSE)

\* The names of a namespace in the order the cluster lists them.
RECURSIVE SortedNames(_)
SortedNames(names) ==
    IF names = {} THEN << >>
    ELSE LET first == CHOOSE n \in names :
                          \A m \in names : m = n \/ StrLess(n, m)
         IN  << first >> \o SortedNames(names \ { first })

\* list_pods(namespace); every pod of the model is in phase Running.
list_pods(namespace, cl, api) ==
    LET items == SortedNames(DOMAIN cl[namespace])
    IN  ToolOutcome(
            IF api = "list_raises" THEN ErrorResponse
            ELSE IF items = << >>
            THEN << "N", "o", " ", "p", "o", "d", "s", " ", "f", "o", "u",
                    "n", "d", " ", "i", "n", " ", "t", "h", "e", " ", "n",
                    "a", "m", "e", "s", "p", "a", "c", "e", "." >>
            ELSE Join([i \in DOMAIN items |->
                          items[i] \o << " ", "(", "R", "u", "n", "n", "i",
                                         "n", "g", ")" >>
                                          ],
                      << "\n" >>),
            cl, << >>, << >>, FALSE)

-----------------------------------------------------------------------------
(* AnthropicClient: format_response and process_query                      *)

\* str.title(): a capital after every character that is not a letter.
Title(s) ==
    [i \in 1..Len(s) |->
        IF i = 1 \/ ~IsCased(s[i - 1]) THEN UpperChar(s[i])
        ELSE LowerChar(s[i])]

\* f"{s:<n}"
PadTo(s, n) == s \o [i \in 1..(n - Len(s)) |-> " "]

NameColumn == 30
StatusColumn == 15
RuleWidth == 50

\* format_response on the text of the tool result: the formatted string, or
\* raised when a line of a status list has no " (" to split on (IndexError).
format_response(tool_name, text_content) ==
    LET tool_name_formatted == Title(Replace(tool_name, << "_" >>, << " " >>))
        lines == Split(Strip(text_content), << "\n" >>)
        is_status_list ==
            /\ Len(lines) > 1
            /\ \A i \in DOMAIN lines :
                  Contains(lines[i], << "(" >>) /\ Contains(lines[i], << ")" >>)
        row(line) ==
            PadTo(Split(line, << " ", "(" >>)[1], NameColumn) \o << " " >>
                \o PadTo(Replace(Split(line, << " ", "(" >>)[2],
                                 << ")" >>, << >>),
                         StatusColumn)
    IN  IF is_status_list
        THEN IF \E i \in DOMAIN lines : Len(Split(lines[i], << " ", "(" >>)) < 2
             THEN [raised |-> TRUE, text |-> << "l", "i", "s", "t", " ",
                                                "i", "n", "d", "e", "x",
                                                " ", "o", "u", "t", " ",
                                                "o", "f", " ", "r", "a",
                                                "n", "g", "e" >>
                                                 ]
             ELSE [raised |-> FALSE,
                   text |->
                       << "\n" >> \o tool_name_formatted \o << ":", "\n" >>
                           \o PadTo(<< "P", "o", "d", " ", "N", "a", "m",
                                       "e" >>
                                        , NameColumn) \o << " " >>
                           \o PadTo(<< "S", "t", "a", "t", "u", "s" >>, StatusColumn) \o << "\n" >>
                           \o [i \in 1..RuleWidth |-> "-"] \o << "\n" >>
                           \o Join([i \in DOMAIN lines |-> row(lines[i])],
                                   << "\n" >>)]
        ELSE [raised |-> FALSE,
              text |-> << "\n" >> \o tool_name_formatted \o << ":", "\n" >>
                           \o text_content]

\* The tool_use block of the model's answer: the tool and its input.  arg is
\* the tool's text argument (names of create_pod and delete_pod, name of
\* pod_logs).
ToolUse(name, arg, namespace) ==
    [name |-> name, input |-> [arg |-> arg, namespace |-> namespace]]

NoToolUse == ToolUse(<< >>, << >>, Default)

\* What the collaborators do during one process_query:
\*   stage    how far the query gets: "tools_raise" (list_tools raises),
\*            "llm_raises", "llm_text" (no tool_use block) or "tool_use";
\*   tool_use the tool_use block, whatever the query was;
\*   call     what call_tool does within the timeout: "result", "timeout" (the
\*            server finishes the tool after the client gave up) or "raises";
\*   api      what the cluster API does: "ok", "list_raises", "calls_raise";
\*   log, logs  what reading the pod's log does.
Environment(stage, tool_use, call, api, log, logs) ==
    [stage |-> stage, tool_use |-> tool_use, call |-> call, api |-> api,
     log |-> log, logs |-> logs]

\* session.call_tool on the server: the tool's handler runs.  A tool that
\* raises comes back as an error result with the exception's text.
CallTool(tool_use, cl, env) ==
    LET arg       == tool_use.input.arg
        namespace == tool_use.input.namespace
    IN  CASE tool_use.name = T_delete_pod ->
                delete_pod(arg, namespace, cl, env.api)
          [] tool_use.name = T_create_pod ->
                create_pod(arg, namespace, cl, env.api)
          [] tool_use.name = T_pod_logs ->
                pod_logs(arg, namespace, cl, env.log, env.logs)
          [] OTHER -> list_pods(namespace, cl, env.api)

\* The character U+0060, which a TLA+ string cannot hold.
Backtick == "U+0060"

\* str(list(available_tools.keys()))
ToolListRepr ==
    << "[" >>
        \o Join([i \in DOMAIN ToolCatalog |->
                    << "'" >> \o ToolCatalog[i] \o << "'" >>],
                << ",", " " >>)
        \o << "]" >>

\* What a process_query leaves behind: the returned string, the cluster, the
\* tool calls sent to the server and the cluster calls they made.
QueryOutcome(response, cl, tool_calls, delete_calls, create_calls) ==
    [response     |-> response,
     cluster      |-> cl,
     tool_calls   |-> tool_calls,
     delete_calls |-> delete_calls,
     create_calls |-> create_calls]

\* f"Error calling tool: {str(e)}"
CallErrorResponse(text) ==
    << "E", "r", "r", "o", "r", " ", "c", "a", "l", "l", "i", "n", "g", " ",
       "t", "o", "o", "l", ":", " " >> \o text

\* "Error: The tool request timed out."
TimedOutResponse ==
    << "E", "r", "r", "o", "r", ":", " ", "T", "h", "e", " ", "t", "o", "o",
       "l", " ", "r", "e", "q", "u", "e", "s", "t", " ", "t", "i", "m", "e",
       "d", " ", "o", "u", "t", "." >>

\* The string process_query returns for a formatted result, or for the
\* exception format_response raised.
FormattedText(formatted) ==
    IF formatted.raised THEN CallErrorResponse(formatted.text)
    ELSE formatted.text

\* ValidTool for a dispatcher that does not look the tool up.
ValidToolUnchecked(chosen_tool) == TRUE

\* chosen_tool in available_tools
ValidTool(chosen_tool) == chosen_tool \in Range(ToolCatalog)

\* The tool ran on the server (ran): its result reaches the client within the
\* timeout and is formatted, or the client gave up waiting.
CallOutcome(env, ran) ==
    QueryOutcome(
        IF env.call = "timeout" THEN TimedOutResponse
        ELSE FormattedText(format_response(env.tool_use.name, ran.text)),
        ran.cluster, << env.tool_use >>, ran.delete_calls, ran.create_calls)

\* process_query(query) in environment env, on cluster cl.
process_query(query, cl, env) ==
    LET chosen_tool == env.tool_use.name
    IN  CASE env.stage = "tools_raise" ->
                QueryOutcome(<< "E", "r", "r", "o", "r", " ", "r", "e", "t",
                                "r", "i", "e", "v", "i", "n", "g", " ", "t",
                                "o", "o", "l", "s", ":", " " >>
                                 \o ApiErrorText,
                             cl, << >>, << >>, << >>)
          [] env.stage = "llm_raises" ->
                QueryOutcome(<< "E", "r", "r", "o", "r", " ", "p", "r", "o",
                                "c", "e", "s", "s", "i", "n", "g", " ", "q",
                                "u", "e", "r", "y", " ", "w", "i", "t", "h",
                                " ", "A", "n", "t", "h", "r", "o", "p", "i",
                                "c", ":", " " >>
                                 \o ApiErrorText,
                             cl, << >>, << >>, << >>)
          [] env.stage = "llm_text" ->
                QueryOutcome(
                    << "E", "r", "r", "o", "r", ":", " ", "A", "n", "t",
                       "h", "r", "o", "p", "i", "c", " ", "c", "o", "u",
                       "l", "d", " ", "n", "o", "t", " ", "d", "e", "t",
                       "e", "r", "m", "i", "n", "e", " ", "a", " ", "v",
                       "a", "l", "i", "d", " ", "t", "o", "o", "l", " ",
                       "f", "o", "r", " ", "t", "h", "i", "s", " ", "q",
                       "u", "e", "r", "y", "." >>
                        ,
                    cl, << >>, << >>, << >>)
          [] OTHER ->
                IF ~ValidTool(chosen_tool)
                THEN QueryOutcome(
                         << "E", "r", "r", "o", "r", ":", " " >> \o << Backtick >> \o chosen_tool
                             \o << Backtick >>
                             \o << " ", "i", "s", " ", "n", "o", "t", " ",
                                   "a", " ", "v", "a", "l", "i", "d", " ",
                                   "t", "o", "o", "l", ".", " ", "A", "v",
                                   "a", "i", "l", "a", "b", "l", "e", " ",
                                   "t", "o", "o", "l", "s", ":", " " >>
                             \o ToolListRepr,
                         cl, << >>, << >>, << >>)
                ELSE IF env.call = "raises"
                THEN QueryOutcome(CallErrorResponse(ApiErrorText),
                                  cl, << env.tool_use >>, << >>, << >>)
                ELSE CallOutcome(env, CallTool(env.tool_use, cl, env))

-----------------------------------------------------------------------------
(* AnthropicClient.interactive_session                                     *)

\* The values of pending_confirmation and pending_action: None or a string.
PyNone == [none |-> TRUE, text |-> << >>]

PyStr(s) == [none |-> FALSE, text |-> s]

\* `if value:`
Truthy(value) == ~value.none /\ value.text # << >>

\* What the user types at the prompt.
UserInputs ==
    { << "Q", "U", "I", "T", " " >>, << "y", "e", "s" >>,
      << " ", "N", "o" >>, << "h", "e", "l", "p" >> }

\* input("\nQuery: ").strip().lower()
ReadQuery(raw) == Lower(Strip(raw))

Q_quit == << "q", "u", "i", "t" >>
Q_yes == << "y", "e", "s" >>
Q_no == << "n", "o" >>

\* f"delete_pod name={pending_confirmation}"
ConfirmQuery(name) == << "d", "e", "l", "e", "t", "e", "_", "p", "o", "d",
                         " ", "n", "a", "m", "e", "=" >>
                          \o name

\* A tool name the server does not register.
UnknownTool == << "r", "e", "s", "t", "a", "r", "t", "_", "p", "o", "d" >>

\* The `names` the model asks delete_pod for in a session.
SessionDeleteNames ==
    { Web, Wed, Wex, Zz, WeQuoteB,
      Wex \o << " ", "a", "n", "d", " " >> \o Wed,
      Wex \o << "," >> \o WeQuoteB,
      WeQuoteB \o << "," >> \o Wex }

\* What call_tool and the cluster API do around a tool call that does not
\* simply return: the API fails inside the tool, the call outlives the
\* timeout, the call raises.
CallCases ==
    { << "result", "list_raises" >>, << "result", "calls_raise" >>,
      << "timeout", "ok" >>, << "raises", "ok" >> }

\* The environments of one process_query on cluster cl: what list_tools and
\* the model do, the tool and arguments the model picks, and what the call
\* and the cluster API do.
Environments(cl) ==
    { Environment(stage, NoToolUse, "result", "ok", "returns", << >>) :
        stage \in { "tools_raise", "llm_raises", "llm_text" } }
    \cup { Environment("tool_use", ToolUse(UnknownTool, << >>, Default),
                       "result", "ok", "returns", << >>) }
    \cup { Environment("tool_use", ToolUse(T_delete_pod, names, Default),
                       "result", "ok", "returns", << >>) :
             names \in SessionDeleteNames }
    \cup { Environment("tool_use", ToolUse(T_delete_pod, Web, Default),
                       case[1], case[2], "returns", << >>) :
             case \in CallCases }
    \cup { Environment("tool_use", ToolUse(T_create_pod, Api, Default),
                       call, "ok", "returns", << >>) :
             call \in { "result", "raises" } }
    \cup UNION { { Environment("tool_use", ToolUse(T_pod_logs, Web, Default),
                               "result", "ok", log, logs) :
                     logs \in IF log = "returns" THEN PodLogTexts
                              ELSE { << >> } } :
                   log \in LogOutcomes(cl, Default, Web) }
    \cup { Environment("tool_use", ToolUse(T_list_pods, << >>, Default),
                       "result", api, "returns", << >>) :
             api \in { "ok", "list_raises" } }

NoEnvironment ==
    Environment("none", NoToolUse, "result", "ok", "returns", << >>)

\* available_tool_names[:10]
HelpLimit == 10

\* The command names the help branch prints.
HelpNames ==
    [i \in 1..(IF Len(ToolCatalog) < HelpLimit THEN Len(ToolCatalog)
               ELSE HelpLimit) |->
        Replace(ToolCatalog[i], << "_" >>, << " " >>)]

\* The record of a turn: the branch taken (kind), the query, the pending
\* state and the cluster before it, the query given to process_query (asked,
\* a list of none or one), the environment
\* of that process_query, its response and calls, the text handed to
\* get_error_resolution_from_ai (remediation) and the names printed as help.
TurnRecord(kind, query, asked, env, out, remediation, help) ==
    [kind                |-> kind,
     query               |-> query,
     before_confirmation |-> pending_confirmation,
     before_action       |-> pending_action,
     before_cluster      |-> cluster,
     asked               |-> asked,
     env                 |-> env,
     response            |-> out.response,
     tool_calls          |-> out.tool_calls,
     delete_calls        |-> out.delete_calls,
     create_calls        |-> out.create_calls,
     remediation         |-> remediation,
     help                |-> help]

\* A turn that calls no process_query.
LocalTurn(kind, query) ==
    TurnRecord(kind, query, << >>, NoEnvironment,
               QueryOutcome(<< >>, cluster, << >>, << >>, << >>),
               << >>, << >>)

\* ResponseBranch with Step 3 left out: a response is never handed to the
\* remediation.
ResponseBranchSkipsLogs(query, response) ==
    IF /\ Contains(response, << "D", "i", "d", " ", "y", "o", "u", " ",
                                     "m", "e", "a", "n" >>
                                      )
            /\ Contains(response, << "R", "e", "p", "l", "y", " ", "'", "y",
                                     "e", "s", "'", " ", "t", "o", " ", "d",
                                     "e", "l", "e", "t", "e", " ", "i", "t" >>
                                      )
    THEN IF Len(Split(response, << "'" >>)) < 4 THEN "exception"
         ELSE "suggestion"
    ELSE IF \/ Contains(Lower(response),
                        << "c", "o", "u", "l", "d", " ", "n", "o", "t", " ",
                           "d", "e", "t", "e", "r", "m", "i", "n", "e", " ",
                           "a", " ", "v", "a", "l", "i", "d", " ", "t", "o",
                           "o", "l" >>
                            )
            \/ Contains(Lower(query), << "h", "e", "l", "p" >>)
    THEN "help"
    ELSE "plain"

\* ResponseBranch with a Step 5 that does not look at the query.
ResponseBranchIgnoresQuery(query, response) ==
    IF Contains(response, << "E", "r", "r", "o", "r", " ", "r", "e", "t",
                             "r", "i", "e", "v", "i", "n", "g", " ", "l",
                             "o", "g", "s" >>
                              )
    THEN "remediation"
    ELSE IF /\ Contains(response, << "D", "i", "d", " ", "y", "o", "u", " ",
                                     "m", "e", "a", "n" >>
                                      )
            /\ Contains(response, << "R", "e", "p", "l", "y", " ", "'", "y",
                                     "e", "s", "'", " ", "t", "o", " ", "d",
                                     "e", "l", "e", "t", "e", " ", "i", "t" >>
                                      )
    THEN IF Len(Split(response, << "'" >>)) < 4 THEN "exception"
         ELSE "suggestion"
    ELSE IF Contains(Lower(response),
                        << "c", "o", "u", "l", "d", " ", "n", "o", "t", " ",
                           "d", "e", "t", "e", "r", "m", "i", "n", "e", " ",
                           "a", " ", "v", "a", "l", "i", "d", " ", "t", "o",
                           "o", "l" >>
                            )
    THEN "help"
    ELSE "plain"

\* Step 3 to the final print: the branch a normal query's response takes.
ResponseBranch(query, response) ==
    IF Contains(response, << "E", "r", "r", "o", "r", " ", "r", "e", "t",
                             "r", "i", "e", "v", "i", "n", "g", " ", "l",
                             "o", "g", "s" >>
                              )
    THEN "remediation"
    ELSE IF /\ Contains(response, << "D", "i", "d", " ", "y", "o", "u", " ",
                                     "m", "e", "a", "n" >>
                                      )
            /\ Contains(response, << "R", "e", "p", "l", "y", " ", "'", "y",
                                     "e", "s", "'", " ", "t", "o", " ", "d",
                                     "e", "l", "e", "t", "e", " ", "i", "t" >>
                                      )
    THEN IF Len(Split(response, << "'" >>)) < 4 THEN "exception"
         ELSE "suggestion"
    ELSE IF \/ Contains(Lower(response),
                        << "c", "o", "u", "l", "d", " ", "n", "o", "t", " ",
                           "d", "e", "t", "e", "r", "m", "i", "n", "e", " ",
                           "a", " ", "v", "a", "l", "i", "d", " ", "t", "o",
                           "o", "l" >>
                            )
            \/ Contains(Lower(query), << "h", "e", "l", "p" >>)
    THEN "help"
    ELSE "plain"

\* response.split("'")[3]
SuggestedPodName(response) == Split(response, << "'" >>)[4]

\* query == 'quit': the loop breaks.
TurnQuit ==
    /\ pc = "prompt"
    /\ \E raw \in UserInputs :
          /\ ReadQuery(raw) = Q_quit
          /\ turn' = LocalTurn("quit", ReadQuery(raw))
    /\ pc' = "exited"
    /\ UNCHANGED << cluster, dp, cp, pending_confirmation, pending_action, helper, rpc >>

\* TurnInputRaises with the try of the loop left out: the exception leaves
\* the loop.
TurnInputRaisesUncaught ==
    /\ pc = "prompt"
    /\ turn' = LocalTurn("input_raises", << >>)
    /\ pc' = "exited"
    /\ UNCHANGED << cluster, dp, cp, pending_confirmation, pending_action, helper, rpc >>

\* input() raises (EOFError): the except clause of the loop prints the error.
TurnInputRaises ==
    /\ pc = "prompt"
    /\ turn' = LocalTurn("input_raises", << >>)
    /\ UNCHANGED << cluster, dp, cp, pc, pending_confirmation, pending_action, helper, rpc >>

\* Step 1, query == "yes": the deletion is asked again for the pending name,
\* or, when the pending action is not delete_pod, nothing is done.
TurnYes ==
    /\ pc = "prompt"
    /\ Truthy(pending_confirmation)
    /\ \E raw \in UserInputs :
          /\ ReadQuery(raw) = Q_yes
          /\ IF pending_action = PyStr(T_delete_pod)
             THEN \E env \in Environments(cluster) :
                  \E asked \in { ConfirmQuery(pending_confirmation.text) } :
                  \E out \in { process_query(asked, cluster, env) } :
                         /\ cluster' = out.cluster
                         /\ pending_confirmation' = PyNone
                         /\ pending_action' = PyNone
                         /\ turn' = TurnRecord("yes", ReadQuery(raw),
                                               << asked >>, env, out,
                                               << >>, << >>)
             ELSE /\ turn' = LocalTurn("unsure", ReadQuery(raw))
                  /\ UNCHANGED << cluster, pending_confirmation,
                                  pending_action >>
    /\ UNCHANGED << dp, cp, pc, helper, rpc >>

\* TurnNo with the two assignments to None left out: the cancellation is
\* printed and the confirmation stays pending.
TurnNoKeepsPending ==
    /\ pc = "prompt"
    /\ Truthy(pending_confirmation)
    /\ \E raw \in UserInputs :
          /\ ReadQuery(raw) = Q_no
          /\ turn' = LocalTurn("no", ReadQuery(raw))
    /\ UNCHANGED << cluster, dp, cp, pc, pending_confirmation, pending_action, helper, rpc >>

\* TurnNo with pending_confirmation left as it is: only the pending action is
\* reset.
TurnNoClearsActionOnly ==
    /\ pc = "prompt"
    /\ Truthy(pending_confirmation)
    /\ \E raw \in UserInputs :
          /\ ReadQuery(raw) = Q_no
          /\ turn' = LocalTurn("no", ReadQuery(raw))
    /\ pending_action' = PyNone
    /\ UNCHANGED << cluster, dp, cp, pc, pending_confirmation, helper, rpc >>

\* Step 1, query == "no": the pending confirmation is dropped.
TurnNo ==
    /\ pc = "prompt"
    /\ Truthy(pending_confirmation)
    /\ \E raw \in UserInputs :
          /\ ReadQuery(raw) = Q_no
          /\ turn' = LocalTurn("no", ReadQuery(raw))
    /\ pending_confirmation' = PyNone
    /\ pending_action' = PyNone
    /\ UNCHANGED << cluster, dp, cp, pc, helper, rpc >>

\* TurnReprompt with the pending confirmation reset as in the "no" branch.
TurnRepromptForgets ==
    /\ pc = "prompt"
    /\ Truthy(pending_confirmation)
    /\ \E raw \in UserInputs :
          /\ ReadQuery(raw) \notin { Q_quit, Q_yes, Q_no }
          /\ turn' = LocalTurn("reprompt", ReadQuery(raw))
    /\ pending_confirmation' = PyNone
    /\ pending_action' = PyNone
    /\ UNCHANGED << cluster, dp, cp, pc, helper, rpc >>

\* Step 1, any other query: the yes/no question is asked again.
TurnReprompt ==
    /\ pc = "prompt"
    /\ Truthy(pending_confirmation)
    /\ \E raw \in UserInputs :
          /\ ReadQuery(raw) \notin { Q_quit, Q_yes, Q_no }
          /\ turn' = LocalTurn("reprompt", ReadQuery(raw))
    /\ UNCHANGED << cluster, dp, cp, pc, pending_confirmation, pending_action, helper, rpc >>

\* Steps 2 to 5: a query with no confirmation pending goes to process_query
\* and the response decides what is printed and stored.
TurnQuery ==
    /\ pc = "prompt"
    /\ ~Truthy(pending_confirmation)
    /\ \E raw \in UserInputs, env \in Environments(cluster) :
          \E query \in { ReadQuery(raw) } :
          \E out \in { process_query(query, cluster, env) } :
          \E branch \in { ResponseBranch(query, out.response) } :
              /\ query # Q_quit
              /\ cluster' = out.cluster
              /\ pending_confirmation' =
                    IF branch = "suggestion"
                    THEN PyStr(SuggestedPodName(out.response))
                    ELSE pending_confirmation
              /\ pending_action' =
                    IF branch = "suggestion" THEN PyStr(T_delete_pod)
                    ELSE pending_action
              /\ turn' = TurnRecord(
                             branch, query, << query >>, env, out,
                             IF branch = "remediation"
                             THEN << out.response >> ELSE << >>,
                             IF branch = "help" THEN HelpNames ELSE << >>)
    /\ UNCHANGED << dp, cp, pc, helper, rpc >>

-----------------------------------------------------------------------------
(* The helpers of create_pod, each called on its own                       *)

\* The pods a snapshot may list.
SnapshotPods ==
    SeedPods[Default] @@ (Db :> << Container("nginx:latest", << 8082 >>) >>)

\* The snapshots v1.list_namespaced_pod may give.
Snapshots ==
    { Restrict(SnapshotPods, names) : names \in SUBSET DOMAIN SnapshotPods }
        \cup { SeedPods[Dev] }

\* The bare names a manifest is synthesized for.
HelperNames == { Web, Api, Db, Zz }

\* No helper was called yet.
NoHelper ==
    [fn            |-> "none",
     new_pod       |-> _generate_pod_spec(<< >>, << >>),
     seen          |-> << >>,
     existing_pods |-> << >>,
     duplicate     |-> FALSE,
     port          |-> BasePort]

\* _is_duplicate_pod(new_pod, existing_pods) for the manifest create_pod
\* synthesizes for a name on the snapshot `seen`.
CheckDuplicate ==
    /\ \E pod_name \in HelperNames, seen \in Snapshots,
          existing_pods \in Snapshots :
          \E new_pod \in { _fill_missing_pod_info(
                               _generate_pod_spec(pod_name, seen),
                               seen, RandomNames) } :
              helper' = [fn            |-> "_is_duplicate_pod",
                         new_pod       |-> new_pod,
                         seen          |-> seen,
                         existing_pods |-> existing_pods,
                         duplicate     |-> _is_duplicate_pod(new_pod,
                                                             existing_pods),
                         port          |-> BasePort]
    /\ UNCHANGED << cluster, dp, cp, pc, pending_confirmation, pending_action,
                    turn, rpc >>

\* _generate_unique_port(existing_pods)
GeneratePort ==
    /\ \E existing_pods \in Snapshots :
          helper' = [NoHelper EXCEPT
                        !.fn = "_generate_unique_port",
                        !.existing_pods = existing_pods,
                        !.port = _generate_unique_port(existing_pods)]
    /\ UNCHANGED << cluster, dp, cp, pc, pending_confirmation, pending_action,
                    turn, rpc >>

-----------------------------------------------------------------------------
(* process_query: call_tool under asyncio.wait_for                         *)

\* timeout=30
ToolTimeout == 30

\* The tool calls the model asks for.
CallToolUses ==
    { ToolUse(T_delete_pod, Web, Default),
      ToolUse(T_create_pod, Api, Default),
      ToolUse(T_list_pods, << >>, Default) }

\* The session is at its prompt and no call was made yet.
IdleCall ==
    [pc       |-> "prompt",
     tool_use |-> NoToolUse,
     elapsed  |-> 0,
     served   |-> FALSE,
     text     |-> << >>,
     ended    |-> "none",
     response |-> << >>]

\* A query is read and process_query reaches wait_for(call_tool(...)): the
\* request goes to the server and the client waits.
CallIssue ==
    /\ rpc.pc = "prompt"
    /\ \E tool_use \in CallToolUses :
          rpc' = [IdleCall EXCEPT !.pc = "waiting", !.tool_use = tool_use]
    /\ UNCHANGED << cluster, dp, cp, pc, pending_confirmation, pending_action,
                    turn, helper >>

\* The server runs the tool's handler, whether or not the client still waits.
ServerRuns ==
    /\ rpc.tool_use # NoToolUse
    /\ ~rpc.served
    /\ \E api \in { "ok", "calls_raise" } :
       \E ran \in { CallTool(rpc.tool_use, cluster,
                             Environment("tool_use", rpc.tool_use, "result",
                                         api, "returns", << >>)) } :
          /\ cluster' = ran.cluster
          /\ rpc' = [rpc EXCEPT !.served = TRUE, !.text = ran.text]
    /\ UNCHANGED << dp, cp, pc, pending_confirmation, pending_action, turn,
                    helper >>

\* A unit of time passes while the client waits.
Tick ==
    /\ rpc.pc = "waiting"
    /\ rpc.elapsed < ToolTimeout
    /\ rpc' = [rpc EXCEPT !.elapsed = @ + 1]
    /\ UNCHANGED << cluster, dp, cp, pc, pending_confirmation, pending_action,
                    turn, helper >>

\* The result arrives before wait_for gives up: it is formatted, returned and
\* printed, and the loop is at its prompt again.
CallResult ==
    /\ rpc.pc = "waiting"
    /\ rpc.served
    /\ rpc.elapsed <= ToolTimeout
    /\ rpc' = [rpc EXCEPT
                  !.pc = "prompt",
                  !.ended = "result",
                  !.response =
                      FormattedText(format_response(rpc.tool_use.name,
                                                    rpc.text))]
    /\ UNCHANGED << cluster, dp, cp, pc, pending_confirmation, pending_action,
                    turn, helper >>

\* call_tool raises: `except Exception` returns the error string.
CallRaises ==
    /\ rpc.pc = "waiting"
    /\ rpc.elapsed <= ToolTimeout
    /\ rpc' = [rpc EXCEPT !.pc = "prompt",
                          !.ended = "raises",
                          !.response = CallErrorResponse(ApiErrorText)]
    /\ UNCHANGED << cluster, dp, cp, pc, pending_confirmation, pending_action,
                    turn, helper >>

\* CallTimeout for an await of call_tool without wait_for: the wait has no end
\* of its own.
CallTimeoutNever ==
    /\ rpc.pc = "waiting"
    /\ rpc.elapsed > ToolTimeout
    /\ rpc' = [rpc EXCEPT !.pc = "prompt",
                          !.ended = "timeout",
                          !.response = TimedOutResponse]
    /\ UNCHANGED << cluster, dp, cp, pc, pending_confirmation, pending_action,
                    turn, helper >>

\* The timeout is over: wait_for raises asyncio.TimeoutError and process_query
\* returns the string for it, which is printed.
CallTimeout ==
    /\ rpc.pc = "waiting"
    /\ rpc.elapsed = ToolTimeout
    /\ rpc' = [rpc EXCEPT !.pc = "prompt",
                          !.ended = "timeout",
                          !.response = TimedOutResponse]
    /\ UNCHANGED << cluster, dp, cp, pc, pending_confirmation, pending_action,
                    turn, helper >>

-----------------------------------------------------------------------------
(* format_response and the split of delete_pod's names, each on its own     *)

\* The lines a tool's text is made of.
ResultLines ==
    { << >>,
      << "a", " ", "(", "R", "u", "n", "n", "i", "n", "g", ")" >>,
      << "b", " ", "(", "P", "e", "n", "d", "i", "n", "g", ")" >>,
      << "f", "(", "x", ")" >>,
      << "r", "e", "a", "d", "y" >>,
      << "x", ")", " ", "(", "y" >> }

\* The texts a tool may return: one to three lines.
ResultTexts ==
    { Join(lines, << "\n" >>) :
        lines \in UNION { [1..n -> ResultLines] : n \in 1..3 } }

\* format_response(tool_name, tool_result) on a tool's text.
FormatResponse ==
    /\ \E tool_name \in { T_list_pods, T_pod_logs },
          text_content \in ResultTexts :
          helper' = [fn           |-> "format_response",
                     tool_name    |-> tool_name,
                     text_content |-> text_content,
                     formatted    |-> format_response(tool_name,
                                                      text_content)]
    /\ UNCHANGED << cluster, dp, cp, pc, pending_confirmation, pending_action,
                    turn, rpc >>

And == << "a", "n", "d" >>

\* What stands between two names in a request to delete_pod.
NameSeparators ==
    { << "," >>, << " " >>, << ",", " " >>,
      << " " >> \o And \o << " " >>,
      << " " >> \o And \o << " " >> \o And \o << " " >> }

\* The `names` of a request for two or three pods.
SeparatedNames ==
    { a \o s \o b : a \in { Web, Wed }, s \in NameSeparators, b \in { Web, Wed } }
        \cup { a \o s \o b \o t \o Wex :
                 a \in { Web, Wed }, s \in NameSeparators, b \in { Web, Wed },
                 t \in NameSeparators }

\* delete_pod's normalisation of `names` and the split into pod_names.
SplitNames ==
    /\ \E names \in SeparatedNames :
          helper' = [fn        |-> "delete_pod",
                     names     |-> names,
                     pod_names |-> DeleteCandidates(names)]
    /\ UNCHANGED << cluster, dp, cp, pc, pending_confirmation, pending_action,
                    turn, rpc >>

-----------------------------------------------------------------------------
(* The specifications                                                      *)

NoTurn ==
    [kind                |-> "none",
     query               |-> << >>,
     before_confirmation |-> PyNone,
     before_action       |-> PyNone,
     before_cluster      |-> SeedPods,
     asked               |-> << >>,
     env                 |-> NoEnvironment,
     response            |-> << >>,
     tool_calls          |-> << >>,
     delete_calls        |-> << >>,
     create_calls        |-> << >>,
     remediation         |-> << >>,
     help                |-> << >>]

Init ==
    /\ cluster \in InitClusters
    /\ dp = IdleDelete
    /\ cp = IdleCreate
    /\ pc = "prompt"
    /\ pending_confirmation = PyNone
    /\ pending_action = PyNone
    /\ turn = NoTurn
    /\ helper = NoHelper
    /\ rpc = IdleCall

\* A session starts on the seeded cluster.
InitSession ==
    /\ Init
    /\ cluster = SeedPods

\* The interactive session, a turn at a time.
Next ==
    \/ TurnQuit
    \/ TurnInputRaises
    \/ TurnYes
    \/ TurnNo
    \/ TurnReprompt
    \/ TurnQuery

Spec == InitSession /\ [][Next]_vars

\* delete_pod, an iteration at a time.
NextDelete ==
    \/ DeleteCall
    \/ DeleteStep
    \/ DeleteReturn

SpecDelete == Init /\ [][NextDelete]_vars

\* create_pod, with the tasks of the executor interleaved.
NextCreate ==
    \/ CreateCall
    \/ TaskCreate
    \/ TaskRecord
    \/ CreateReturn

SpecCreate == Init /\ [][NextCreate]_vars

\* The helpers of create_pod, a call at a time.
NextHelpers ==
    \/ CheckDuplicate
    \/ GeneratePort

SpecHelpers == InitSession /\ [][NextHelpers]_vars

\* A tool call under its timeout.  Time passes while the client waits and the
\* event loop runs the timeout's callback when it is due; nothing makes the
\* server answer.
NextCall ==
    \/ CallIssue
    \/ ServerRuns
    \/ Tick
    \/ CallResult
    \/ CallRaises
    \/ CallTimeout

SpecCall ==
    /\ InitSession
    /\ [][NextCall]_vars
    /\ WF_vars(Tick)
    /\ WF_vars(CallTimeout)

\* The formatting of a result and the split of a request, a call at a time.
NextText ==
    \/ FormatResponse
    \/ SplitNames

SpecText == InitSession /\ [][NextText]_vars

-----------------------------------------------------------------------------
(* The session's states and what a turn did                                *)

\* The two states of the session: a confirmation is pending or none is.
AwaitingConfirmation == Truthy(pending_confirmation)
Idle == ~Truthy(pending_confirmation)

\* The state in which the last turn began.
WasAwaitingConfirmation == Truthy(turn.before_confirmation)
WasIdle == ~Truthy(turn.before_confirmation)

\* The last turn read a query (input() returned).
QueryRead == turn.kind \notin { "none", "input_raises" }

\* In the last turn tool selection picked delete_pod for `names` in the default
\* namespace, the call returned in time and the cluster API answered.
SelectedDelete(names) ==
    /\ turn.env.stage = "tool_use"
    /\ turn.env.tool_use = ToolUse(T_delete_pod, names, Default)
    /\ turn.env.call = "result"
    /\ turn.env.api = "ok"

\* The last turn asked again for yes or no and changed nothing.
Reprompted ==
    /\ turn.kind = "reprompt"
    /\ AwaitingConfirmation
    /\ pending_confirmation = turn.before_confirmation
    /\ pending_action = turn.before_action
    /\ turn.asked = << >>
    /\ turn.tool_calls = << >>
    /\ cluster = turn.before_cluster
    /\ pc = "prompt"

-----------------------------------------------------------------------------
(* The interactive session: C1 to C4, C10                                  *)

\* C1: in AwaitingConfirmation the query 'yes' makes one cluster delete call,
\* for the stored suggested name and for no other pod, and leaves the session
\* Idle.  Stated for the turns in which tool selection hands delete_pod the
\* stored name and the call returns.
C1_YesDeletesStoredName ==
    ( /\ turn.kind = "yes"
      /\ WasAwaitingConfirmation
      /\ SelectedDelete(turn.before_confirmation.text) )
    => /\ turn.delete_calls =
              << << Default, turn.before_confirmation.text >> >>
       /\ Idle
       /\ pending_action = PyNone

\* C2: from Idle, a delete request for one name that matches no pod exactly
\* and has a close match leaves the session AwaitingConfirmation with the
\* close match, an existing pod that is still there, as the pending target.
C2_FuzzyDeleteAwaitsSuggestedName ==
    LET requested == turn.env.tool_use.input.arg
        existing  == DOMAIN turn.before_cluster[Default]
        closest   == get_close_matches(requested, existing)
    IN  ( /\ QueryRead
          /\ WasIdle
          /\ turn.asked = << turn.query >>
          /\ SelectedDelete(requested)
          /\ DeleteCandidates(requested) = << requested >>
          /\ requested \notin existing
          /\ closest # << >> )
        => /\ AwaitingConfirmation
           /\ pending_confirmation = PyStr(closest[1])
           /\ pending_action = PyStr(T_delete_pod)
           /\ closest[1] \in DOMAIN cluster[Default]

\* C3: in AwaitingConfirmation the query 'no' clears the pending confirmation
\* and leaves the session Idle; the turn sends nothing to tool selection,
\* calls no tool and leaves the cluster as it was.
C3_NoCancelsWithoutCalls ==
    ( /\ QueryRead
      /\ WasAwaitingConfirmation
      /\ turn.query = Q_no )
    => /\ turn.kind = "no"
       /\ Idle
       /\ pending_confirmation = PyNone
       /\ pending_action = PyNone
       /\ turn.asked = << >>
       /\ turn.tool_calls = << >>
       /\ turn.delete_calls = << >>
       /\ cluster = turn.before_cluster
       /\ pc = "prompt"

\* A 'no' was answered to a pending confirmation for the pod wed.
C3_Witness ==
    /\ turn.kind = "no"
    /\ turn.query = Q_no
    /\ turn.before_confirmation = PyStr(Wed)
    /\ Wed \in DOMAIN cluster[Default]

\* C4 as the specification words it: in AwaitingConfirmation every query other
\* than 'yes' or 'no' asks again for yes or no, keeps the stored suggestion
\* and is not sent to tool selection.
C4_EveryOtherQueryReprompts ==
    ( /\ QueryRead
      /\ WasAwaitingConfirmation
      /\ turn.query \notin { Q_yes, Q_no } )
    => Reprompted

\* C4 with 'quit' set apart: in AwaitingConfirmation every query other than
\* 'quit', 'yes' or 'no' asks again for yes or no, keeps the stored suggestion
\* and is not sent to tool selection; 'quit' ends the session.
C4_OtherThanQuitReprompts ==
    /\ ( /\ QueryRead
         /\ WasAwaitingConfirmation
         /\ turn.query \notin { Q_quit, Q_yes, Q_no } )
       => Reprompted
    /\ ( /\ QueryRead
         /\ WasAwaitingConfirmation
         /\ turn.query = Q_quit )
       => (turn.kind = "quit" /\ pc = "exited")

\* 'help' was typed while a confirmation for wed was pending.
C4_Witness ==
    /\ turn.kind = "reprompt"
    /\ turn.query = << "h", "e", "l", "p" >>
    /\ pending_confirmation = PyStr(Wed)

\* C10: the loop is left only by the query 'quit'; a turn in which input() or
\* the handling of the response raised is followed by the next prompt.
C10_OnlyQuitEndsLoop ==
    /\ pc = "exited" => (turn.kind = "quit" /\ turn.query = Q_quit)
    /\ turn.kind \in { "input_raises", "exception" } => pc = "prompt"
    /\ pc \in { "prompt", "exited" }

\* The handling of a response raised (the IndexError of split("'")[3]) and
\* the session is at its prompt.
C10_Witness ==
    /\ turn.kind = "exception"
    /\ turn.tool_calls # << >>
    /\ pc = "prompt"

-----------------------------------------------------------------------------
(* create_pod: C5 to C7                                                    *)

\* The pod name of an entry of failed_pods, "name (error)".
FailedName(entry) == Split(entry, << " ", "(" >>)[1]

CreatedNames == Range(cp.created_pods)
SkippedNames == Range(cp.skipped_pods)
FailedNames == { FailedName(cp.failed_pods[i]) : i \in DOMAIN cp.failed_pods }

\* The three result lists share no name.
ResultsDisjoint ==
    /\ CreatedNames \cap SkippedNames = {}
    /\ CreatedNames \cap FailedNames = {}
    /\ SkippedNames \cap FailedNames = {}

\* The sizes of the three result lists sum to the number of requested names.
ResultsCountRequested ==
    Len(cp.created_pods) + Len(cp.skipped_pods) + Len(cp.failed_pods)
        = Len(cp.pod_names)

\* Every requested name is in one of the three result lists.
ResultsCoverRequested ==
    \A i \in DOMAIN cp.pod_names :
        cp.pod_names[i] \in CreatedNames \cup SkippedNames \cup FailedNames

\* No name is requested twice.
RequestedNamesDistinct ==
    \A i, j \in DOMAIN cp.pod_names :
        cp.pod_names[i] = cp.pod_names[j] => i = j

\* C5 as the specification words it: when create_pod returns, whatever the
\* order its tasks ran in, every requested name is in exactly one of created,
\* skipped and failed: the three share no name and their sizes sum to the
\* number of requested names.
C5_ResultsPartitionRequested ==
    cp.pc = "returned"
    => /\ ResultsDisjoint
       /\ ResultsCountRequested
       /\ ResultsCoverRequested

\* C5 for requests that name no pod twice: when create_pod returns, whatever
\* the order its tasks ran in, the sizes of created, skipped and failed sum to
\* the number of requested names and every requested name is in one of them;
\* when no name was requested twice, the three share no name.
C5_DistinctNamesPartitioned ==
    cp.pc = "returned"
    => /\ ResultsCountRequested
       /\ ResultsCoverRequested
       /\ RequestedNamesDistinct => ResultsDisjoint

\* create_pod returned with a pod created, one skipped and one failed, of
\* three different names.
C5_Witness ==
    /\ cp.pc = "returned"
    /\ RequestedNamesDistinct
    /\ Len(cp.pod_names) = 3
    /\ cp.created_pods # << >>
    /\ cp.skipped_pods # << >>
    /\ cp.failed_pods # << >>

\* The manifest create_pod synthesizes for a requested name on snapshot S.
SynthesizedSpec(pod_name, S) ==
    _fill_missing_pod_info(_generate_pod_spec(pod_name, S), S, RandomNames)

\* C6: a manifest that duplicates the snapshot is listed as skipped and no
\* create call is ever made for it; every create call of a create_pod call is
\* for a manifest that does not duplicate the snapshot.
C6_DuplicatesSkippedNeverCreated ==
    cp.pc \in { "gather", "returned" }
    => /\ \A i \in DOMAIN cp.pod_names :
             LET pod == SynthesizedSpec(cp.pod_names[i], cp.existing_pods)
             IN  _is_duplicate_pod(pod, cp.existing_pods)
                 => /\ pod.metadata.name \in SkippedNames
                    /\ \A k \in DOMAIN cp.create_calls :
                          cp.create_calls[k][2] # pod.metadata.name
       /\ \A k \in DOMAIN cp.create_calls :
             \E i \in DOMAIN cp.pod_names :
                LET pod == SynthesizedSpec(cp.pod_names[i], cp.existing_pods)
                IN  /\ pod.metadata.name = cp.create_calls[k][2]
                    /\ ~_is_duplicate_pod(pod, cp.existing_pods)

\* create_pod returned having skipped a duplicate and called the cluster for
\* another manifest.
C6_Witness ==
    /\ cp.pc = "returned"
    /\ cp.skipped_pods # << >>
    /\ cp.create_calls # << >>

\* C7: create_pod returns only when every submitted task has finished; every
\* submitted manifest got its create call and its entry in created or failed,
\* whatever became of the other tasks, and every pod reported created is in
\* the cluster.
C7_ReturnsAfterEveryTask ==
    cp.pc = "returned"
    => /\ \A i \in DOMAIN cp.tasks : cp.tasks[i] = "done"
       /\ Len(cp.create_calls) = Len(cp.processed_pod_manifest)
       /\ \A i \in DOMAIN cp.processed_pod_manifest :
             \E k \in DOMAIN cp.create_calls :
                cp.create_calls[k][2]
                    = cp.processed_pod_manifest[i].metadata.name
       /\ Len(cp.created_pods) + Len(cp.failed_pods)
              = Len(cp.processed_pod_manifest)
       /\ \A name \in CreatedNames :
             name \in DOMAIN cluster[CreateNamespace(cp)]

\* create_pod returned with one task failed and another succeeded.
C7_Witness ==
    /\ cp.pc = "returned"
    /\ Len(cp.tasks) > 1
    /\ cp.failed_pods # << >>
    /\ cp.created_pods # << >>

-----------------------------------------------------------------------------
(* delete_pod: C8 and C9                                                   *)

\* C8: an iteration of delete_pod on a name of the snapshot makes the delete
\* call for it, which deletes the pod unless the API fails, and records no
\* suggestion; an iteration on a name that is not in the snapshot and has a
\* close match records the closest name as the suggestion and makes no delete
\* call.  The text returned carries every suggestion, and a call for one such
\* name makes no delete call at all.
C8_ExactDeletesFuzzySuggests ==
    LET pod_name == dp.last.pod_name
        closest  == get_close_matches(pod_name, dp.existing_pods)
    IN  /\ ( /\ pod_name # << >>
             /\ pod_name \in dp.existing_pods )
           => /\ dp.delete_calls = Append(dp.last.calls_before, pod_name)
              /\ dp.suggestions = dp.last.suggestions_before
              /\ ( /\ ~dp.last.api_fails
                   /\ pod_name \notin Range(dp.last.calls_before) )
                 => /\ pod_name \in Range(dp.deleted_pods)
                    /\ pod_name \notin DOMAIN cluster[dp.namespace]
        /\ ( /\ pod_name # << >>
             /\ pod_name \notin dp.existing_pods
             /\ closest # << >> )
           => /\ dp.suggestions =
                     DictSet(dp.last.suggestions_before, pod_name, closest[1])
              /\ closest[1] \in dp.existing_pods
              /\ dp.delete_calls = dp.last.calls_before
              /\ Len(dp.pod_names) = 1 => dp.delete_calls = << >>
        /\ dp.pc = "returned"
           => \A i \in DOMAIN dp.suggestions :
                 Contains(dp.text, SuggestionResponse(dp.suggestions[i][1],
                                                      dp.suggestions[i][2]))

\* delete_pod returned having deleted a pod named exactly and suggested a name
\* for another.
C8_Witness ==
    /\ dp.pc = "returned"
    /\ dp.deleted_pods # << >>
    /\ dp.suggestions # << >>

\* C9: delete_pod makes a cluster delete call only for a candidate that is the
\* name of a pod of the snapshot; a candidate with neither an exact nor a
\* close match gets no delete call.
C9_DeleteCallsOnlyForExactMatches ==
    \A i \in DOMAIN dp.delete_calls : dp.delete_calls[i] \in dp.existing_pods

-----------------------------------------------------------------------------
(* create_pod, the batch and its snapshot: C11, C12, C15, C17              *)

\* The (image, port) pairs the containers of a manifest declare.
SpecPairs(pod) ==
    UNION { { << pod.spec.containers[i].image,
                 pod.spec.containers[i].ports[k].containerPort >> :
                k \in DOMAIN pod.spec.containers[i].ports } :
              i \in DOMAIN pod.spec.containers }

\* The (image, port) pairs the containers of a listed pod declare.
ListedPairs(containers) ==
    UNION { { << containers[i].image, containers[i].ports[k] >> :
                k \in DOMAIN containers[i].ports } :
              i \in DOMAIN containers }

\* The manifest has the name of a pod of snapshot S, or an (image, port) pair
\* of one.
CollidesWithSnapshot(pod, S) ==
    \/ pod.metadata.name \in DOMAIN S
    \/ \E name \in DOMAIN S : SpecPairs(pod) \cap ListedPairs(S[name]) # {}

\* Two manifests have the same name or share an (image, port) pair.
CollideInBatch(p, q) ==
    \/ p.metadata.name = q.metadata.name
    \/ SpecPairs(p) \cap SpecPairs(q) # {}

\* The manifests the running create_pod call synthesized, by requested name.
BatchSpecs ==
    [i \in DOMAIN cp.pod_names |->
        SynthesizedSpec(cp.pod_names[i], cp.existing_pods)]

\* The tasks are submitted: the loop over the requested names is over.
BatchSynthesized == cp.pc \in { "gather", "returned" }

ManifestNames(pods) == [k \in DOMAIN pods |-> pods[k].metadata.name]

\* C12 as the specification words it: the manifests synthesized for the N
\* requested names have pairwise different names, none of them the name of a
\* pod of the snapshot.
C12_SynthesizedNamesNewAndDistinct ==
    BatchSynthesized
    => /\ \A i, j \in DOMAIN BatchSpecs :
             BatchSpecs[i].metadata.name = BatchSpecs[j].metadata.name
             => i = j
       /\ \A i \in DOMAIN BatchSpecs :
             BatchSpecs[i].metadata.name \notin DOMAIN cp.existing_pods

\* C12 for the names as requested: the manifests synthesized for the N
\* requested names carry those names, in order; the ones named like a pod of
\* the snapshot are skipped and the others submitted, so that every submitted
\* name is new to the snapshot, and the submitted names are pairwise different
\* when the requested names are.
C12_SynthesizedNamesAreRequested ==
    BatchSynthesized
    => /\ \A i \in DOMAIN BatchSpecs :
             BatchSpecs[i].metadata.name = cp.pod_names[i]
       /\ ManifestNames(cp.processed_pod_manifest)
              = SelectSeq(cp.pod_names,
                          LAMBDA name : name \notin DOMAIN cp.existing_pods)
       /\ cp.skipped_pods
              = SelectSeq(cp.pod_names,
                          LAMBDA name : name \in DOMAIN cp.existing_pods)
       /\ RequestedNamesDistinct
          => \A k, l \in DOMAIN cp.processed_pod_manifest :
                cp.processed_pod_manifest[k].metadata.name
                    = cp.processed_pod_manifest[l].metadata.name
                => k = l

\* Three bare names were requested, the first the name of a pod of the
\* snapshot and skipped, the other two new and submitted.
C12_Witness ==
    /\ BatchSynthesized
    /\ Len(cp.pod_names) = 3
    /\ cp.skipped_pods = << cp.pod_names[1] >>
    /\ ManifestNames(cp.processed_pod_manifest)
           = << cp.pod_names[2], cp.pod_names[3] >>

\* C15: every create call of create_pod(names, namespace) is made in the
\* namespace passed to the call, the one the snapshot was read from, and the
\* pods reported created are in that namespace.
C15_CreatesInCallNamespace ==
    BatchSynthesized
    => /\ \A k \in DOMAIN cp.create_calls :
             cp.create_calls[k][1] = cp.namespace
       /\ cp.pc = "returned"
          => \A name \in CreatedNames : name \in DOMAIN cluster[cp.namespace]

\* text.startswith(prefix)
StartsWith(text, prefix) ==
    /\ Len(text) >= Len(prefix)
    /\ SubSeq(text, 1, Len(prefix)) = prefix

ErrorPrefix == << "E", "r", "r", "o", "r" >>

\* C17, for create_pod: a failure of a cluster API call never leaves the tool
\* as an exception, and the string returned after a failed call begins with
\* 'Error'.
C17_ApiFailureReturnedAsErrorString ==
    /\ cp.pc # "raised"
    /\ ( /\ cp.pc = "returned"
         /\ cp.failed_pods # << >> )
       => StartsWith(cp.text, ErrorPrefix)

-----------------------------------------------------------------------------
(* The helpers of create_pod: C13 and C14                                  *)

Declares(S, port) ==
    \E name \in DOMAIN S :
        \E i \in DOMAIN S[name] :
            \E k \in DOMAIN S[name][i].ports : S[name][i].ports[k] = port

\* C14: _generate_unique_port returns the smallest integer from 8080 upwards
\* that no container of a pod of the snapshot declares; for the empty snapshot
\* that is 8080.
C14_SmallestFreePortFromBase ==
    helper.fn = "_generate_unique_port"
    => /\ helper.port >= BasePort
       /\ ~Declares(helper.existing_pods, helper.port)
       /\ \A port \in BasePort..(helper.port - 1) :
             Declares(helper.existing_pods, port)
       /\ DOMAIN helper.existing_pods = {} => helper.port = BasePort

\* The snapshot declares 8080 and 8081, the latter in a second container, and
\* the port returned is the next one.
C14_Witness ==
    /\ helper.fn = "_generate_unique_port"
    /\ helper.port = BasePort + 2
    /\ Declares(helper.existing_pods, BasePort)
    /\ Declares(helper.existing_pods, BasePort + 1)
    /\ ~Declares(helper.existing_pods, BasePort + 2)

-----------------------------------------------------------------------------
(* The dispatch of a tool call and the branches of a turn: C16, C18, C19   *)

\* The last turn gave a query to process_query.
Asked == turn.asked # << >>

\* The pending confirmation is as it was before the last turn.
PendingUnchanged ==
    /\ pending_confirmation = turn.before_confirmation
    /\ pending_action = turn.before_action

\* C16: when the tool picked is not in the catalog, process_query returns an
\* error string, no tool call is sent and the cluster is as before; when
\* call_tool raises for a tool of the catalog, process_query returns the
\* error string of the exception.  Neither turn ends in an exception and the
\* session is at its prompt.
C16_UnknownToolAndRaisedCallReturnErrors ==
    /\ ( /\ Asked
         /\ turn.env.stage = "tool_use"
         /\ turn.env.tool_use.name \notin Range(ToolCatalog) )
       => /\ StartsWith(turn.response, ErrorPrefix)
          /\ turn.tool_calls = << >>
          /\ turn.delete_calls = << >>
          /\ turn.create_calls = << >>
          /\ cluster = turn.before_cluster
          /\ turn.kind # "exception"
          /\ pc = "prompt"
    /\ ( /\ Asked
         /\ turn.env.stage = "tool_use"
         /\ turn.env.tool_use.name \in Range(ToolCatalog)
         /\ turn.env.call = "raises" )
       => /\ StartsWith(turn.response, ErrorPrefix)
          /\ Contains(turn.response, ApiErrorText)
          /\ turn.kind # "exception"
          /\ pc = "prompt"

\* Tool selection picked a tool the server does not register.
C16_Witness ==
    /\ Asked
    /\ turn.env.stage = "tool_use"
    /\ turn.env.tool_use.name = UnknownTool
    /\ turn.response # << >>

LogsSentinel ==
    << "E", "r", "r", "o", "r", " ", "r", "e", "t", "r", "i", "e", "v", "i",
       "n", "g", " ", "l", "o", "g", "s" >>

\* The response carries the sentinel of a failed log retrieval.
CarriesLogsSentinel == Contains(turn.response, LogsSentinel)

\* The response carries the prompt that asks to confirm a deletion.
CarriesDeletionPrompt ==
    /\ Contains(turn.response,
                << "D", "i", "d", " ", "y", "o", "u", " ", "m", "e", "a",
                   "n" >>)
    /\ Contains(turn.response,
                << "R", "e", "p", "l", "y", " ", "'", "y", "e", "s", "'", " ",
                   "t", "o", " ", "d", "e", "l", "e", "t", "e", " ", "i",
                   "t" >>)

\* C18 as the specification words it: in any state of the session, when the
\* response obtained in a turn carries 'Error retrieving logs', the response
\* is handed to the remediation and the pending confirmation is left as it
\* was.
C18_SentinelAlwaysRemediated ==
    ( /\ Asked
      /\ CarriesLogsSentinel )
    => /\ turn.remediation = << turn.response >>
       /\ PendingUnchanged

\* C18 from Idle: when the response obtained in a turn that began Idle carries
\* 'Error retrieving logs', the response is handed to the remediation and the
\* pending confirmation is left as it was; a turn that began in
\* AwaitingConfirmation hands nothing to the remediation, and its 'yes' prints
\* the response and clears the pending confirmation.
C18_SentinelRemediatedFromIdle ==
    /\ ( /\ Asked
         /\ WasIdle
         /\ CarriesLogsSentinel )
       => /\ turn.kind = "remediation"
          /\ turn.remediation = << turn.response >>
          /\ PendingUnchanged
          /\ Idle
    /\ WasAwaitingConfirmation => turn.remediation = << >>
    /\ ( /\ Asked
         /\ WasAwaitingConfirmation )
       => (turn.kind = "yes" /\ Idle)

\* Reading the logs of web failed with a bad request and the response went to
\* the remediation.
C18_Witness ==
    /\ turn.kind = "remediation"
    /\ turn.env.tool_use.name = T_pod_logs
    /\ turn.env.log = "bad_request"
    /\ turn.remediation = << turn.response >>

Q_help == << "h", "e", "l", "p" >>

\* Tool selection gave no tool_use block in the last turn.
SelectionFailed == Asked /\ turn.env.stage = "llm_text"

\* The names printed are the first names of the catalog, HelpLimit at most.
HelpWithinLimit ==
    /\ Len(turn.help) <= HelpLimit
    /\ Len(turn.help) <= Len(ToolCatalog)
    /\ \A i \in DOMAIN turn.help :
          turn.help[i] = Replace(ToolCatalog[i], << "_" >>, << " " >>)

\* C19 as the specification words it: in any state of the session, a turn
\* whose query contains 'help' or in which tool selection determines no tool
\* prints at most the first 10 tool names and leaves the pending confirmation
\* as it was.
C19_HelpLeavesPendingAlways ==
    ( /\ QueryRead
      /\ Contains(turn.query, Q_help) \/ SelectionFailed )
    => /\ HelpWithinLimit
       /\ PendingUnchanged

\* C19 from Idle: a turn that began Idle, whose query contains 'help' or in
\* which tool selection determines no tool, and whose response carries
\* neither 'Error retrieving logs' nor the prompt to confirm a deletion,
\* prints the first tool names of the catalog, 10 at most, and leaves the
\* pending confirmation as it was.  In AwaitingConfirmation no names are
\* printed.
C19_HelpFromIdleLeavesPending ==
    /\ ( /\ QueryRead
         /\ WasIdle
         /\ Contains(turn.query, Q_help) \/ SelectionFailed
         /\ ~CarriesLogsSentinel
         /\ ~CarriesDeletionPrompt )
       => /\ turn.kind = "help"
          /\ HelpWithinLimit
          /\ Len(turn.help) = IF Len(ToolCatalog) < HelpLimit
                              THEN Len(ToolCatalog) ELSE HelpLimit
          /\ PendingUnchanged
          /\ Idle
    /\ WasAwaitingConfirmation => turn.help = << >>

\* 'help' was typed, tool selection picked a tool that ran, and the names were
\* printed.
C19_Witness ==
    /\ turn.kind = "help"
    /\ turn.query = Q_help
    /\ turn.tool_calls # << >>
    /\ turn.help # << >>

-----------------------------------------------------------------------------
(* The timeout of a tool call: C20                                         *)

-----------------------------------------------------------------------------
(* format_response: C21                                                    *)

\* The line is a name, " (", a status and ")", with no other parenthesis.
NameStatusShape(line) ==
    LET at == Find(line, << " ", "(" >>, 1)
    IN  /\ at > 1
        /\ Len(line) > at + 2
        /\ line[Len(line)] = ")"
        /\ \A i \in 1..Len(line) :
              /\ line[i] = "(" => i = at + 1
              /\ line[i] = ")" => i = Len(line)

ShapeName(line) == SubSeq(line, 1, Find(line, << " ", "(" >>, 1) - 1)

ShapeStatus(line) ==
    SubSeq(line, Find(line, << " ", "(" >>, 1) + 2, Len(line) - 1)

\* The title format_response gives the two tools.
TitleOf(tool_name) ==
    IF tool_name = T_list_pods
    THEN << "L", "i", "s", "t", " ", "P", "o", "d", "s" >>
    ELSE << "P", "o", "d", " ", "L", "o", "g", "s" >>

\* The lines of the text given to format_response.
GivenLines == Split(Strip(helper.text_content), << "\n" >>)

\* The lines of the two-column table for GivenLines.
ExpectedTable ==
    << << >>,
       TitleOf(helper.tool_name) \o << ":" >>,
       PadTo(<< "P", "o", "d", " ", "N", "a", "m", "e" >>, NameColumn)
           \o << " " >>
           \o PadTo(<< "S", "t", "a", "t", "u", "s" >>, StatusColumn),
       [i \in 1..RuleWidth |-> "-"] >>
        \o [i \in DOMAIN GivenLines |->
               PadTo(ShapeName(GivenLines[i]), NameColumn) \o << " " >>
                   \o PadTo(ShapeStatus(GivenLines[i]), StatusColumn)]

\* C21: format_response returns the two-column table with the header
\* 'Pod Name' / 'Status' and one row per line when every line of the text has
\* the shape 'name (status)', and the text as it is under the tool's title
\* otherwise.
C21_TableIffEveryLineShaped ==
    helper.fn = "format_response"
    => /\ ~helper.formatted.raised
       /\ IF \A i \in DOMAIN GivenLines : NameStatusShape(GivenLines[i])
          THEN Split(helper.formatted.text, << "\n" >>) = ExpectedTable
          ELSE helper.formatted.text
                   = << "\n" >> \o TitleOf(helper.tool_name)
                         \o << ":", "\n" >> \o helper.text_content

-----------------------------------------------------------------------------
(* delete_pod's names: C23                                                 *)

\* C23: the word 'and' between names counts as a comma: the candidate names
\* of a request are its words between blanks and commas other than 'and', so
\* that 'a and b' gives the candidates of 'a,b', and 'and' is no candidate.
C23_AndIsCommaNeverCandidate ==
    helper.fn = "delete_pod"
    => /\ helper.pod_names
              = SelectSeq(ReSplitNames(helper.names),
                          LAMBDA name : name # And)
       /\ And \notin Range(helper.pod_names)

-----------------------------------------------------------------------------
(* delete_pod, failures and the text returned: C22, C25                    *)

\* The candidate got a suggestion in the running call.
Suggested(name) ==
    \E i \in DOMAIN dp.suggestions : dp.suggestions[i][1] = name

DeletedLabel ==
    << "P", "o", "d", "s", " ", "d", "e", "l", "e", "t", "e", "d" >>

FailedLabel ==
    << "F", "a", "i", "l", "e", "d", " ", "t", "o", " ", "d", "e", "l", "e",
       "t", "e" >>

\* C22: a delete call that fails is recorded in failed_pods as the name with
\* the error text in parentheses, and the names after it are still worked on:
\* when delete_pod returns, every candidate that got no suggestion has had its
\* delete call, in the order of the request, each call ended in deleted_pods
\* or in failed_pods, and the text returned is not empty and names every
\* failure when it is the summary.
C22_FailureRecordedLoopGoesOn ==
    /\ Len(dp.delete_calls) = Len(dp.deleted_pods) + Len(dp.failed_pods)
    /\ \A k \in DOMAIN dp.failed_pods :
          \E i \in DOMAIN dp.delete_calls :
             dp.failed_pods[k]
                 = dp.delete_calls[i] \o << " ", "(" >> \o ApiErrorText
                       \o << ")" >>
    /\ ( /\ dp.last.pod_name # << >>
         /\ dp.last.api_fails
         /\ dp.delete_calls # dp.last.calls_before )
       => /\ dp.failed_pods # << >>
          /\ dp.failed_pods[Len(dp.failed_pods)]
                 = dp.last.pod_name \o << " ", "(" >> \o ApiErrorText
                       \o << ")" >>
    /\ dp.pc = "returned"
       => /\ dp.delete_calls
                 = SelectSeq(dp.pod_names, LAMBDA name : ~Suggested(name))
          /\ dp.text # << >>
          /\ dp.suggestions = << >>
             => \A k \in DOMAIN dp.failed_pods :
                   Contains(dp.text, dp.failed_pods[k])

\* delete_pod returned from a request of two names: the delete of the first
\* failed and the second was deleted after it.
C22_Witness ==
    /\ dp.pc = "returned"
    /\ dp.pod_names = << Zz, Web >>
    /\ dp.failed_pods = << FailedEntry(Zz) >>
    /\ dp.deleted_pods = << Web >>
    /\ Contains(dp.text, FailedEntry(Zz))

\* C25: when delete_pod returns from a request with names of listed pods and
\* fuzzy-matched names, every name of a listed pod has had its delete call,
\* which removed the pod from the cluster unless it failed, and the text
\* returned is the confirmation prompts, one line each, with neither the
\* line of deleted pods nor the line of failed ones.
C25_ExactDeletedTextIsPromptsOnly ==
    ( /\ dp.pc = "returned"
      /\ dp.suggestions # << >>
      /\ \E i \in DOMAIN dp.pod_names : dp.pod_names[i] \in dp.existing_pods )
    => /\ \A i \in DOMAIN dp.pod_names :
             dp.pod_names[i] \in dp.existing_pods
             => /\ dp.pod_names[i] \in Range(dp.delete_calls)
                /\ \/ /\ dp.pod_names[i] \in Range(dp.deleted_pods)
                      /\ dp.pod_names[i] \notin DOMAIN cluster[dp.namespace]
                   \/ FailedEntry(dp.pod_names[i]) \in Range(dp.failed_pods)
       /\ Split(dp.text, << "\n" >>)
              = [i \in 1..Len(dp.suggestions) |->
                    SuggestionResponse(dp.suggestions[i][1],
                                       dp.suggestions[i][2])]
       /\ ~Contains(dp.text, DeletedLabel)
       /\ ~Contains(dp.text, FailedLabel)

\* delete_pod returned from "wex and wed": wed is gone from the cluster and
\* the text is the one prompt for wex.
C25_Witness ==
    /\ dp.pc = "returned"
    /\ dp.pod_names = << Wex, Wed >>
    /\ dp.deleted_pods = << Wed >>
    /\ Wed \notin DOMAIN cluster[dp.namespace]
    /\ Len(dp.suggestions) = 1
    /\ ~Contains(dp.text, DeletedLabel)

-----------------------------------------------------------------------------
(* The session's pending confirmation: C24, C26                            *)

\* C24: in every state of the session pending_action is 'delete_pod' exactly
\* when pending_confirmation is not None, and both are None otherwise; no
\* turn takes the "not sure what you want to confirm" branch of 'yes'.
C24_PendingActionIffConfirmation ==
    /\ pending_action = PyStr(T_delete_pod) <=> pending_confirmation # PyNone
    /\ pending_confirmation = PyNone => pending_action = PyNone
    /\ pending_action \in { PyNone, PyStr(T_delete_pod) }
    /\ turn.kind # "unsure"

\* A turn from Idle stored a suggested name: both variables are set.
C24_Witness ==
    /\ WasIdle
    /\ turn.kind = "suggestion"
    /\ Truthy(pending_confirmation)
    /\ pending_action = PyStr(T_delete_pod)

\* The candidates of the delete request of the last turn that are no pod of
\* the default namespace and have a close match there, in the request's order.
AmbiguousNames ==
    LET existing == DOMAIN turn.before_cluster[Default]
    IN  SelectSeq(DeleteCandidates(turn.env.tool_use.input.arg),
                  LAMBDA name :
                      /\ name \notin existing
                      /\ get_close_matches(name, existing) # << >>)

\* In the last turn, from Idle, delete_pod answered with the prompts for
\* several ambiguous names.
SeveralSuggested ==
    /\ WasIdle
    /\ QueryRead
    /\ Asked
    /\ turn.env.stage = "tool_use"
    /\ turn.env.tool_use.name = T_delete_pod
    /\ turn.env.call = "result"
    /\ turn.env.api = "ok"
    /\ Len(AmbiguousNames) > 1

\* C26: when the delete response of a turn carries the prompts for several
\* ambiguous names, the session stores the name suggested for the first of
\* them, and only that; the 'yes' that follows asks for the deletion of the
\* stored name alone and leaves the session Idle with nothing pending.
C26_FirstSuggestionStoredOthersDropped ==
    /\ SeveralSuggested
       => /\ pending_confirmation
                 = PyStr(get_close_matches(
                             AmbiguousNames[1],
                             DOMAIN turn.before_cluster[Default])[1])
          /\ pending_action = PyStr(T_delete_pod)
    /\ turn.kind = "yes"
       => /\ turn.asked = << ConfirmQuery(turn.before_confirmation.text) >>
          /\ pending_confirmation = PyNone
          /\ pending_action = PyNone

====
